---- MODULE Spec2Model ----
(***************************************************************************)
(* Polyglot Pal: the backend chat endpoints and the client retry helper.   *)
(*                                                                         *)
(*   HistSpec      the history-array /api/chat handler (src/api/index.js   *)
(*                 203-293) with its in-memory maps chatSessions (guests)  *)
(*                 and users (logged-in users), and the in-memory path of  *)
(*                 its later variant (src/unnamed/part_008 162-289)        *)
(*   StatefulSpec  the stateful /api/chat handler (src/api/index.js        *)
(*                 474-551), one SDK chat object per sessionId             *)
(*   RetrySpec     retryOperation (src/services/mockData.ts 166-176)       *)
(*                                                                         *)
(* The two handlers live in two server programs that both call their map   *)
(* chatSessions; the map of the history-array server is chatSessionsH.     *)
(***************************************************************************)
EXTENDS Integers, Sequences, FiniteSets, TLC

VARIABLES
    \* ---- history-array server (src/api/index.js 26-29)
    server,         \* which variant of the history-array server runs
    chatSessionsH,  \* guests: sessionId -> history[] (or absent)
    users,          \* logged-in users: userId -> { history[], isPremium }
    hreq,           \* the /api/chat requests of the history-array server
    conv,           \* per caller: number of turns exchanged successfully
    \* ---- stateful server (src/api/index.js 375)
    chatSessions,   \* sessionId -> chat object (or absent)
    chats,          \* the chat objects made by ai.chats.create, by identity
    sreq,           \* the /api/chat requests of the stateful server
    apiKey,         \* process.env.API_KEY is set
    \* ---- retryOperation (src/services/mockData.ts 167)
    rop,            \* one call of retryOperation and its recursive calls
    \* ---- the chat client (src/App.tsx 446-454, src/services/geminiService.ts 211)
    selectedLanguage, \* useState: the language of the chat screen, or none
    hasStarted,     \* useState: a scenario was started
    messages,       \* useState: the message list
    isTyping,       \* useState: the typing flag; the input area is disabled by it
    errorMsg,       \* useState: the message of the error modal, or none
    currentSessionId, \* module variable of geminiService.ts
    now,            \* Date.now()
    creq,           \* the calls of chatWithGemini and their fetches
    \* ---- the session server (src/server.js 21)
    serverSessions, \* chatSessions of src/server.js: sessionId -> chat (or absent)
    serverChats,    \* the chat objects made by ai.chats.create, by identity
    sconv,          \* the conversations: /api/chat/start and /api/chat/message
    \* ---- the tutor bubbles (src/components/ChatBubble.tsx 863-881)
    bubble,         \* per bubble: its useState flags and its refs
    speak,          \* the calls of handleSpeakTutor and handleSpeakCorrection
    \* ---- the input area (src/services/geminiService.ts 520-529)
    inputArea,      \* its useState flag, its refs and the record button
    recorders,      \* the MediaRecorders and their microphone streams
    dateNow,        \* Date.now() of the input area, in ms
    sentAudio,      \* the recordings passed to onSend
    \* ---- the speech endpoints (src/api/index.js 296, 554, src/server.js 173)
    tts,            \* the /api/tts requests and their responses
    \* ---- the Supabase client (src/unnamed/part_006 9)
    supabase,       \* supabaseInstance, process.env and the calls made so far
    \* ---- parseGeminiJson (src/server.js 72, src/api/index.js 71)
    parsed          \* the last call of parseGeminiJson: its text and its outcome

histVars == <<server, chatSessionsH, users, hreq, conv>>
statefulVars == <<chatSessions, chats, sreq, apiKey>>
retryVars == <<rop>>
clientVars == <<selectedLanguage, hasStarted, messages, isTyping, errorMsg,
                currentSessionId, now, creq>>
startVars == <<serverSessions, serverChats, sconv>>
audioVars == <<bubble, speak>>
recVars == <<inputArea, recorders, dateNow, sentAudio>>
ttsVars == <<tts>>
supaVars == <<supabase>>
parseVars == <<parsed>>
vars == <<server, chatSessionsH, users, hreq, conv, chatSessions, chats, sreq, apiKey, rop,
          selectedLanguage, hasStarted, messages, isTyping, errorMsg,
          currentSessionId, now, creq, serverSessions, serverChats, sconv,
          bubble, speak,
          inputArea, recorders, dateNow, sentAudio,
          tts,
          supabase,
          parsed>>

\* What the steps of one component leave alone: the other components
exceptHist == <<statefulVars, retryVars, clientVars, startVars, audioVars, recVars, ttsVars, supaVars, parseVars>>
exceptStateful == <<histVars, retryVars, clientVars, startVars, audioVars, recVars, ttsVars, supaVars, parseVars>>
exceptRetry == <<histVars, statefulVars, clientVars, startVars, audioVars, recVars, ttsVars, supaVars, parseVars>>
exceptClient == <<histVars, statefulVars, retryVars, startVars, audioVars, recVars, ttsVars, supaVars, parseVars>>
exceptAudio == <<histVars, statefulVars, retryVars, clientVars, startVars, recVars, ttsVars, supaVars, parseVars>>
exceptRec == <<histVars, statefulVars, retryVars, clientVars, startVars, audioVars, ttsVars, supaVars, parseVars>>
exceptTts == <<histVars, statefulVars, retryVars, clientVars, startVars, audioVars, recVars, supaVars, parseVars>>
exceptSupabase == <<histVars, statefulVars, retryVars, clientVars, startVars, audioVars, recVars,
                    ttsVars, parseVars>>
exceptParse == <<histVars, statefulVars, retryVars, clientVars, startVars, audioVars, recVars,
                 ttsVars, supaVars>>
\* the session server reads the clock, which the model keeps with the client
exceptStart == <<histVars, statefulVars, retryVars, selectedLanguage, hasStarted,
                 messages, isTyping, errorMsg, currentSessionId, creq, audioVars, recVars, ttsVars, supaVars, parseVars>>

----------------------------------------------------------------------------
(* Bounds of the model *)

\* /api/chat requests received by the history-array server in one behaviour
MaxHistReqs == 2
\* /api/chat requests received by the stateful server in one behaviour
MaxStatefulReqs == 3
\* largest retries argument given to retryOperation
MaxRetries == 3

SessionIds == {"s1", "s2"}
UserIds == {"u1"}
NoUser == ""

----------------------------------------------------------------------------
(* Helpers on sequences *)

Min(a, b) == IF a < b THEN a ELSE b

\* Array.prototype.slice(from) with a 0-based start index
SliceFrom(h, from) == SubSeq(h, from + 1, Len(h))

\* s is a suffix of t
IsSuffix(s, t) == Len(s) <= Len(t) /\ s = SubSeq(t, Len(t) - Len(s) + 1, Len(t))

----------------------------------------------------------------------------
(***************************************************************************)
(* The history-array /api/chat handler                                     *)
(***************************************************************************)

\* Strict Policy: Free users get last 50 turns
FreeTurns == 50
\* Safety cap of the in-memory mock DB
HardCap == 500
\* number of turns the safety cap removes
PruneCount == 100

\* A turn { role, parts }. The parts of a turn are abstracted to the position
\* of the turn in the caller's conversation, so that every turn is distinct.
Turn(role, pos) == [role |-> role, pos |-> pos]

\* A history of n turns as n/2 successful exchanges leave it
Conversation(n) ==
    [i \in 1..n |-> Turn(IF i % 2 = 1 THEN "user" ELSE "model", i)]

\* if (history.length > 50) history = history.slice(history.length - 50)
FreeNeedsSlice(h) == Len(h) > FreeTurns
FreeSlice(h) == SliceFrom(h, Len(h) - FreeTurns)

\* if (history.length > 500) history.splice(0, 100)
SafetyCap(h) ==
    IF Len(h) > HardCap THEN SliceFrom(h, PruneCount) ELSE h

\* The later variant of the server keeps the history of a request without
\* userId in memory: if (history.length > 20) history.splice(0, 2)
FallbackCap == 20
FallbackPrune == 2
MemoryFallbackCap(h) ==
    IF Len(h) > FallbackCap THEN SliceFrom(h, FallbackPrune) ELSE h

\* The two variants of the history-array server
Servers == {"index", "part_008"}

\* Outcomes of the generation call as the handler sees them:
\*   "throws"   ai.models.generateContent rejects
\*   "garbage"  it resolves with a text parseGeminiJson cannot decode
\*   "json"     it resolves with a text parseGeminiJson decodes
GenOutcomes == {"throws", "garbage", "json"}

\* Faulty variant of HistoryAfter: the pushes come before the decode
HistoryAfterPushBeforeParse(h, userTurn, modelTurn, gen) ==
    IF gen = "throws" THEN h
    ELSE SafetyCap(h \o <<userTurn, modelTurn>>)

\* Faulty variant of HistoryAfter: the model turn is not pushed
HistoryAfterUserOnly(h, userTurn, modelTurn, gen) ==
    IF gen = "json" THEN SafetyCap(h \o <<userTurn>>) ELSE h

\* lines 268-285: the array `history` refers to after the generation call
\* settled: both pushes and the safety cap come after the decode, so a
\* rejected call or an undecodable text leaves the array alone.
HistoryAfter(h, userTurn, modelTurn, gen) ==
    IF gen = "json" THEN SafetyCap(h \o <<userTurn, modelTurn>>) ELSE h

\* part_008 lines 232-281, Memory Fallback: the same order of decode and
\* pushes, with the cap of that variant
MemoryFallbackAfter(h, userTurn, modelTurn, gen) ==
    IF gen = "json" THEN MemoryFallbackCap(h \o <<userTurn, modelTurn>>) ELSE h

\* res.status(status).json(body): the body is the decoded turn or { error }
Response(status, body) == [status |-> status, body |-> body]
ErrorBody(message) == [kind |-> "error", message |-> message]
TurnBody == [kind |-> "turn", message |-> ""]
NoResponse == Response(0, [kind |-> "none", message |-> ""])

\* error.message of what the generation call or parseGeminiJson throws
ErrorMessage(gen) ==
    IF gen = "throws" THEN "generation failed" ELSE "No JSON found in response"

\* lines 287 and 289-292
ResponseAfter(gen) ==
    IF gen = "json" THEN Response(200, TurnBody)
    ELSE Response(500, ErrorBody(ErrorMessage(gen)))

HistReqIds == 1..MaxHistReqs

\* LANGUAGE_CONFIGS of the history-array server
LanguagesH == {"French", "English", "Spanish", "German", "Russian", "Japanese",
               "Cantonese", "Chinese"}

\* const config = LANGUAGE_CONFIGS[language] || LANGUAGE_CONFIGS.French
ConfigOf(language) == IF language \in LanguagesH THEN language ELSE "French"

IdleHistReq ==
    [pc |-> "idle", sessionId |-> "", userId |-> NoUser, language |-> "",
     config |-> "", kind |-> "",
     ref |-> "none", prior |-> <<>>, local |-> <<>>, convAtStart |-> 0,
     firstPos |-> 0, aborted |-> FALSE, res |-> NoResponse]

\* The caller whose conversation a request belongs to
CallerOf(sessionId, userId) ==
    IF userId # NoUser /\ users[userId].registered THEN userId ELSE sessionId

\* The history stored for a caller (no turns when the map has no entry)
StoredIn(sessions, us, k) ==
    IF k \in UserIds THEN us[k].history
    ELSE IF sessions[k].present THEN sessions[k].history ELSE <<>>

Stored(k) == StoredIn(chatSessionsH, users, k)

\* POST /api/auth/google, lines 107-138: registers an unknown user
AuthGoogle(u) ==
    /\ server = "index"
    /\ ~users[u].registered
    /\ users' = [users EXCEPT ![u] =
                    [registered |-> TRUE, history |-> <<>>, isPremium |-> FALSE]]
    /\ UNCHANGED <<server, chatSessionsH, hreq, conv>>
    /\ UNCHANGED exceptHist

\* POST /api/confirm-payment, lines 188-199
ConfirmPayment(u) ==
    /\ server = "index"
    /\ users[u].registered
    /\ ~users[u].isPremium
    /\ users' = [users EXCEPT ![u].isPremium = TRUE]
    /\ UNCHANGED <<server, chatSessionsH, hreq, conv>>
    /\ UNCHANGED exceptHist

\* part_008 lines 213-223: a request without parts opens the scenario when
\* the history is empty; index.js answers 400 to every request without parts
AutoTrigger(history) == server = "part_008" /\ history = <<>>

\* POST /api/chat, lines 203-268: the handler up to the await of the
\* generation call, or up to its 400 response. Requests take the slots of
\* hreq in the order the server receives them. Of part_008 (lines 162-239)
\* the requests without userId are modelled: with a userId the history is
\* the client's or the database's, not the server's memory.
HistChatReceive(r, sessionId, userId, language, hasParts) ==
    /\ hreq[r].pc = "idle"
    /\ server = "part_008" => userId = NoUser
    /\ \A q \in HistReqIds : q < r => hreq[q].pc # "idle"
    /\ LET loggedIn == userId # NoUser /\ users[userId].registered
           free == loggedIn /\ ~users[userId].isPremium
           sliced == free /\ FreeNeedsSlice(users[userId].history)
           history == IF sliced THEN FreeSlice(users[userId].history)
                      ELSE IF loggedIn THEN users[userId].history
                      ELSE Stored(sessionId)
           caller == CallerOf(sessionId, userId)
           calls == hasParts \/ AutoTrigger(history)
       IN /\ chatSessionsH' =
                IF ~loggedIn /\ ~chatSessionsH[sessionId].present
                THEN [chatSessionsH EXCEPT ![sessionId] =
                         [present |-> TRUE, history |-> <<>>]]
                ELSE chatSessionsH
          /\ hreq' = [hreq EXCEPT ![r] =
                [pc |-> IF calls THEN "awaiting" ELSE "done",
                 sessionId |-> sessionId, userId |-> userId,
                 language |-> language, config |-> ConfigOf(language),
                 kind |-> IF ~loggedIn THEN "guest"
                          ELSE IF free THEN "free" ELSE "premium",
                 ref |-> IF sliced THEN "copy"
                         ELSE IF loggedIn THEN "user" ELSE "session",
                 prior |-> history,
                 local |-> IF sliced THEN history ELSE <<>>,
                 convAtStart |-> conv[caller],
                 firstPos |-> 0,
                 aborted |-> FALSE,
                 res |-> IF calls THEN NoResponse
                         ELSE Response(400, ErrorBody("No message or audio provided"))]]
    /\ UNCHANGED <<server, users, conv>>
    /\ UNCHANGED exceptHist

\* The client of the request gives up while the handler awaits the generation
\* call: the timer of its fetchWithTimeout aborts the fetch
\* (src/services/geminiService.ts 233). The handler has no listener for the
\* closed connection; nothing of the server changes.
ClientAborts(r) ==
    /\ hreq[r].pc = "awaiting"
    /\ ~hreq[r].aborted
    /\ hreq' = [hreq EXCEPT ![r].aborted = TRUE]
    /\ UNCHANGED <<server, chatSessionsH, users, conv>>
    /\ UNCHANGED exceptHist

\* POST /api/chat, lines 268-292: the generation call settles and the handler
\* runs to its response (which nobody reads when the client has given up);
\* the connection of the request is done with.
HistChatSettle(r, gen) ==
    /\ hreq[r].pc = "awaiting"
    /\ LET q == hreq[r]
           caller == IF q.kind = "guest" THEN q.sessionId ELSE q.userId
           userTurn == Turn("user", conv[caller] + 1)
           modelTurn == Turn("model", conv[caller] + 2)
       IN /\ users' =
                IF q.ref = "user"
                THEN [users EXCEPT ![q.userId].history =
                         HistoryAfter(@, userTurn, modelTurn, gen)]
                ELSE users
          /\ chatSessionsH' =
                IF q.ref = "session"
                THEN [chatSessionsH EXCEPT ![q.sessionId].history =
                         IF server = "index"
                         THEN HistoryAfter(@, userTurn, modelTurn, gen)
                         ELSE MemoryFallbackAfter(@, userTurn, modelTurn, gen)]
                ELSE chatSessionsH
          /\ hreq' = [hreq EXCEPT
                ![r].pc = "done",
                ![r].local = IF q.ref = "copy"
                             THEN HistoryAfter(@, userTurn, modelTurn, gen)
                             ELSE @,
                ![r].firstPos = IF gen = "json" THEN conv[caller] + 1 ELSE 0,
                ![r].aborted = FALSE,
                ![r].res = ResponseAfter(gen)]
          /\ conv' = IF gen = "json"
                     THEN [conv EXCEPT ![caller] = @ + 2]
                     ELSE conv
    /\ UNCHANGED server
    /\ UNCHANGED exceptHist

\* States of the two maps that earlier successful exchanges leave behind: a
\* guest session of 0 or 500 turns, a user who is unknown, free with 0, 50 or
\* 52 turns (a free user's stored history never grows past 52), or premium

----------------------------------------------------------------------------
(***************************************************************************)
(* The stateful /api/chat handler                                          *)
(***************************************************************************)

\* LANGUAGE_CONFIGS of the stateful server
Languages == {"French", "English", "Spanish", "German", "Russian", "Japanese",
              "Cantonese"}

\* req.body fields that may be missing: undefined is the empty string for
\* sessionId and scenario (both are only tested for truthiness), and a value
\* of its own for message
NoSession == ""
NoScenario == ""
Undefined == "undefined"

\* The request bodies of the model: for each sessionId a message, a body
\* without message and a scenario opening (which carries no message); a
\* language the server does not have; a body without sessionId.
StatefulRequests ==
    {[sessionId |-> s, language |-> "French", scenario |-> b[1], message |-> b[2]] :
        s \in SessionIds,
        b \in {<<NoScenario, "hi">>, <<NoScenario, Undefined>>, <<"CAFE", Undefined>>}}
    \cup {[sessionId |-> "s1", language |-> "Klingon", scenario |-> sc, message |-> "hi"] :
        sc \in {NoScenario, "CAFE"}}
    \cup {[sessionId |-> NoSession, language |-> "French", scenario |-> NoScenario,
           message |-> "hi"]}

\* chatSessions.get(sessionId) of a missing key
NoChat == 0

StatefulReqIds == 1..MaxStatefulReqs

IdleStatefulReq ==
    [pc |-> "idle", sessionId |-> NoSession, language |-> "", scenario |-> NoScenario,
     message |-> Undefined, chat |-> NoChat, isNewSession |-> FALSE,
     prompt |-> Undefined, thrown |-> "", res |-> NoResponse]

\* Faulty variant of NeedsNewSession: a scenario does not open a new session
NeedsNewSessionOnMissOnly(chat, scenario) == chat = NoChat

\* if (!chat || scenario)
NeedsNewSession(chat, scenario) == chat = NoChat \/ scenario # NoScenario

\* the prompt of a scenario opening
ScenarioPrompt(scenario) == "The current topic is: " \o scenario

\* let prompt = message; if (isNewSession && scenario) prompt = `...`
PromptOf(message, scenario, isNewSession) ==
    IF isNewSession /\ scenario # NoScenario THEN ScenarioPrompt(scenario) ELSE message

\* Faulty variant of CatchDelete: a failure empties the whole map
CatchClearsAll(sessions, sessionId) == [s \in SessionIds |-> NoChat]

\* Faulty variant of CatchDelete: the session survives the failure
CatchKeepsSession(sessions, sessionId) == sessions

\* catch: if (req.body.sessionId) chatSessions.delete(req.body.sessionId)
CatchDelete(sessions, sessionId) ==
    IF sessionId # NoSession THEN [sessions EXCEPT ![sessionId] = NoChat]
    ELSE sessions

\* catch: res.status(500).json({ error: error.message })
CatchResponse(message) == Response(500, ErrorBody(message))

\* POST /api/chat, lines 474-539: the handler up to the await of
\* chat.sendMessage, or up to the response it sends before that.
StatefulReceive(r, sessionId, language, scenario, message) ==
    /\ sreq[r].pc = "idle"
    /\ \A q \in StatefulReqIds : q < r => sreq[q].pc # "idle"
    /\ LET q == [sreq[r] EXCEPT !.sessionId = sessionId, !.language = language,
                               !.scenario = scenario, !.message = message]
           chat == chatSessions[sessionId]
           isNewSession == NeedsNewSession(chat, scenario)
           created == Len(chats) + 1
           prompt == PromptOf(message, scenario, isNewSession)
       IN IF ~apiKey
          THEN \* throw new Error("Server missing API_KEY")
               /\ chatSessions' = CatchDelete(chatSessions, sessionId)
               /\ sreq' = [sreq EXCEPT ![r] =
                     [q EXCEPT !.pc = "done", !.thrown = "Server missing API_KEY",
                               !.res = CatchResponse("Server missing API_KEY")]]
               /\ UNCHANGED chats
          ELSE IF sessionId = NoSession
          THEN /\ sreq' = [sreq EXCEPT ![r] =
                     [q EXCEPT !.pc = "done",
                               !.res = Response(400, ErrorBody("Session ID required"))]]
               /\ UNCHANGED <<chatSessions, chats>>
          ELSE IF language \notin Languages
          THEN /\ sreq' = [sreq EXCEPT ![r] =
                     [q EXCEPT !.pc = "done",
                               !.res = Response(400, ErrorBody("Invalid language"))]]
               /\ UNCHANGED <<chatSessions, chats>>
          ELSE IF prompt = Undefined
          THEN \* prompt.substring(0, 50) throws a TypeError
               /\ chats' = IF isNewSession THEN Append(chats, <<>>) ELSE chats
               /\ chatSessions' = CatchDelete(
                     IF isNewSession
                     THEN [chatSessions EXCEPT ![sessionId] = created]
                     ELSE chatSessions, sessionId)
               /\ sreq' = [sreq EXCEPT ![r] =
                     [q EXCEPT !.pc = "done",
                               !.chat = IF isNewSession THEN created ELSE chat,
                               !.isNewSession = isNewSession,
                               !.thrown = "Cannot read properties of undefined",
                               !.res = CatchResponse("Cannot read properties of undefined")]]
          ELSE /\ chats' = IF isNewSession THEN Append(chats, <<>>) ELSE chats
               /\ chatSessions' =
                     IF isNewSession
                     THEN [chatSessions EXCEPT ![sessionId] = created]
                     ELSE chatSessions
               /\ sreq' = [sreq EXCEPT ![r] =
                     [q EXCEPT !.pc = "awaiting",
                               !.chat = IF isNewSession THEN created ELSE chat,
                               !.isNewSession = isNewSession,
                               !.prompt = prompt]]
    /\ UNCHANGED apiKey
    /\ UNCHANGED exceptStateful

\* POST /api/chat, lines 539-550: chat.sendMessage settles and the handler
\* runs to its response. A resolved sendMessage has recorded the prompt and
\* the model's text in the history of the chat object.
StatefulSettle(r, gen) ==
    /\ sreq[r].pc = "awaiting"
    /\ LET q == sreq[r]
       IN /\ chats' = IF gen = "throws" THEN chats
                      ELSE [chats EXCEPT ![q.chat] =
                               @ \o <<Turn("user", r), Turn("model", r)>>]
          /\ chatSessions' = IF gen = "json" THEN chatSessions
                             ELSE CatchDelete(chatSessions, q.sessionId)
          /\ sreq' = [sreq EXCEPT
                ![r].pc = "done",
                ![r].thrown = IF gen = "json" THEN "" ELSE ErrorMessage(gen),
                ![r].res = IF gen = "json" THEN Response(200, TurnBody)
                           ELSE CatchResponse(ErrorMessage(gen))]
    /\ UNCHANGED apiKey
    /\ UNCHANGED exceptStateful

----------------------------------------------------------------------------
(***************************************************************************)
(* retryOperation                                                          *)
(***************************************************************************)

\* retries = 3, delay = 500
DefaultRetries == 3
DefaultDelay == 500
RetryDelays == {250, DefaultDelay, 1000}

\* A delay in milliseconds as a fraction num/den: delay * 1.5 is not a whole
\* number in general
Millis(n) == [num |-> n, den |-> 1]
\* delay * 1.5
NextDelay(d) == [num |-> d.num * 3, den |-> d.den * 2]

\* Faulty variant of ShouldRethrow: one attempt too many
RethrowWhenNegative(retries) == retries < 0

\* if (retries <= 0) throw error
ShouldRethrow(retries) == retries <= 0

\* retryOperation is called: nothing has run yet
RetryCalled(retries, delay) ==
    [pc |-> "call", retries0 |-> retries, delay0 |-> Millis(delay),
     retries |-> retries, delay |-> Millis(delay),
     outcomes |-> <<>>, waits |-> <<>>,
     result |-> [kind |-> "none", of |-> 0]]

\* return await operation(): the operation is invoked
RetryInvoke ==
    /\ rop.pc = "call"
    /\ rop' = [rop EXCEPT !.pc = "pending"]
    /\ UNCHANGED exceptRetry

\* the promise of the operation settles: the value is returned, or the error
\* is rethrown, or the timer of the delay is started
RetrySettle(ok) ==
    /\ rop.pc = "pending"
    /\ LET n == Len(rop.outcomes) + 1
       IN rop' =
            IF ok
            THEN [rop EXCEPT !.pc = "returned",
                             !.outcomes = Append(@, "ok"),
                             !.result = [kind |-> "value", of |-> n]]
            ELSE IF ShouldRethrow(rop.retries)
            THEN [rop EXCEPT !.pc = "thrown",
                             !.outcomes = Append(@, "error"),
                             !.result = [kind |-> "error", of |-> n]]
            ELSE [rop EXCEPT !.pc = "waiting",
                             !.outcomes = Append(@, "error"),
                             !.waits = Append(@, rop.delay)]
    /\ UNCHANGED exceptRetry

\* the timer fires: return retryOperation(operation, retries - 1, delay * 1.5)
RetryTimer ==
    /\ rop.pc = "waiting"
    /\ rop' = [rop EXCEPT !.pc = "call",
                          !.retries = @ - 1,
                          !.delay = NextDelay(@)]
    /\ UNCHANGED exceptRetry

----------------------------------------------------------------------------
(***************************************************************************)
(* The chat client: App (src/App.tsx 446-599) and chatWithGemini           *)
(* (src/services/geminiService.ts 211-292)                                 *)
(***************************************************************************)

\* calls of chatWithGemini in one behaviour
MaxClientReqs == 3
\* largest value Date.now() takes in one behaviour
MaxNow == 2

ClientReqIds == 1..MaxClientReqs

\* useState(null) of selectedLanguage and of errorMsg
NoLanguage == ""
NoError == ""

\* The languages the user picks in the model, and LANGUAGE_CONFIGS[lang].tutorName
ClientLanguages == {"French"}
TutorNameOf(lang) == IF lang = "French" THEN "Pierre" ELSE "undefined"

\* Date.now().toString()
SessionIdAt(t) == ToString(t)

\* A message of the list, { sender, ... }: the text or the tutor's response
\* is abstracted to the call of chatWithGemini the message belongs to
Message(sender, r) == [sender |-> sender, of |-> r]

\* getTimeout(): envTimeout ? parseInt(envTimeout) : 15000
DefaultTimeout == 15000

\* An error { name, message }. A message is the sequence of the fragments it
\* is put together from; String.prototype.includes looks for a fragment.
Error(name, message) == [name |-> name, message |-> message]
NoThrow == Error("", <<>>)
Includes(message, fragment) == \E i \in 1..Len(message) : message[i] = fragment

\* What fetch rejects with when the controller aborts it
AbortError == Error("AbortError", <<"The user aborted a request.">>)

\* What fetch rejects with when the network fails: the message of the
\* TypeError is the browser's (Chrome, Firefox)
NetworkFailures ==
    {Error("TypeError", <<"Failed to fetch">>),
     Error("TypeError", <<"NetworkError when attempting to fetch resource.">>)}

\* new Error(`Request timed out after ${timeout / 1000} seconds. Backend might be sleeping.`)
TimedOut ==
    Error("Error", <<"Request timed out", " after ",
                     ToString(DefaultTimeout \div 1000),
                     " seconds. Backend might be sleeping.">>)

\* fetchWithTimeout, catch: an AbortError becomes the timeout error, any other
\* error is rethrown
FetchCatch(error) == IF error.name = "AbortError" THEN TimedOut ELSE error

\* The bodies of a response that is not ok, as chatWithGemini reads them:
\* { error } as the servers send it, or a text that is not JSON
ErrorTexts == {[json |-> TRUE, error |-> <<"Invalid language">>],
               [json |-> FALSE, error |-> <<>>]}

\* let errorMsg = `Backend Error: ${status} ${statusText}`;
\* try { if (errorJson.error) errorMsg = errorJson.error } catch {}
BackendError(text) ==
    Error("Error", IF text.json /\ text.error # <<>> THEN text.error
                   ELSE <<"Backend Error: ", "500 Internal Server Error">>)

\* The outcomes of reading the body of a response that is ok: JSON, a text
\* JSON.parse rejects, or a connection that breaks
BodyOutcomes == {"json", "garbage", "broken"}
BodyError(outcome) ==
    IF outcome = "garbage" THEN Error("SyntaxError", <<"Unexpected token">>)
    ELSE Error("TypeError", <<"Failed to fetch">>)

\* handleError: the messages of the error modal
TimeoutMsg == "The server took too long to respond. It might be waking up."
UnreachableMsg == "Unable to reach the server. Please check connection."
ConnectMsg(tutorName) == "Couldn't connect to " \o tutorName \o "."

\* Faulty variant of UserFriendly: the timeout has no message of its own
UserFriendlyWithoutTimeout(error, tutorName) ==
    IF Includes(error.message, "Failed to fetch") THEN UnreachableMsg
    ELSE ConnectMsg(tutorName)

\* handleError, lines 570-580: userFriendlyMsg
UserFriendly(error, tutorName) ==
    IF Includes(error.message, "Request timed out") THEN TimeoutMsg
    ELSE IF Includes(error.message, "Failed to fetch") THEN UnreachableMsg
    ELSE ConnectMsg(tutorName)

\* Faulty variant of Finally: setIsTyping(false) is the last statement of the
\* try block
ClearTypingInTry(typing, error) == IF error = NoThrow THEN FALSE ELSE typing

\* finally { setIsTyping(false) }: the typing flag after the handler
Finally(typing, error) == FALSE

IdleClientReq ==
    [pc |-> "idle", kind |-> "", language |-> NoLanguage, sessionId |-> "",
     before |-> <<>>, listAtIssue |-> <<>>, typingAtIssue |-> FALSE,
     cleared |-> FALSE, timer |-> "none", ok |-> FALSE,
     outcome |-> "none", shown |-> NoError]

\* chatWithGemini and fetchWithTimeout up to the await of fetch: the timer is
\* started and the request is sent. list and typing are the message list and
\* the typing flag as the handler has set them when it makes the call; before
\* is the list the handler found.
Issued(kind, before, list, typing, sessionId) ==
    [IdleClientReq EXCEPT !.pc = "fetching", !.kind = kind,
                          !.language = selectedLanguage, !.sessionId = sessionId,
                          !.before = before, !.listAtIssue = list,
                          !.typingAtIssue = typing, !.timer = "armed"]

InFlight(q) == q.pc \in {"fetching", "reading"}

\* History of the model: the user emptied the list (setMessages([]) of a click
\* handler) while the call was outstanding
ClearedByUser(reqs) ==
    [r \in ClientReqIds |->
        IF InFlight(reqs[r]) THEN [reqs[r] EXCEPT !.cleared = TRUE] ELSE reqs[r]]

\* The calls take the slots of creq in the order they are made
NextCall(r) ==
    /\ creq[r].pc = "idle"
    /\ \A q \in ClientReqIds : q < r => creq[q].pc # "idle"

\* Date.now() moves on
Tick ==
    /\ now < MaxNow
    /\ now' = now + 1
    /\ UNCHANGED <<selectedLanguage, hasStarted, messages, isTyping, errorMsg,
                   currentSessionId, creq>>
    /\ UNCHANGED exceptClient

\* handleLanguageSelect, lines 485-493; the selection screen is rendered
\* while no language is selected
HandleLanguageSelect(lang) ==
    /\ selectedLanguage = NoLanguage
    /\ selectedLanguage' = lang
    /\ hasStarted' = FALSE
    /\ messages' = <<>>
    /\ errorMsg' = NoError
    /\ currentSessionId' = SessionIdAt(now)
    /\ creq' = ClearedByUser(creq)
    /\ UNCHANGED <<isTyping, now>>
    /\ UNCHANGED exceptClient

\* handleBackToSelection, lines 495-500; the Header of the chat screen
HandleBackToSelection ==
    /\ selectedLanguage # NoLanguage
    /\ selectedLanguage' = NoLanguage
    /\ hasStarted' = FALSE
    /\ messages' = <<>>
    /\ creq' = ClearedByUser(creq)
    /\ UNCHANGED <<isTyping, errorMsg, currentSessionId, now>>
    /\ UNCHANGED exceptClient

\* handleReset, lines 594-599; the Header of the chat screen
HandleReset ==
    /\ selectedLanguage # NoLanguage
    /\ hasStarted' = FALSE
    /\ messages' = <<>>
    /\ errorMsg' = NoError
    /\ creq' = ClearedByUser(creq)
    /\ UNCHANGED <<selectedLanguage, isTyping, currentSessionId, now>>
    /\ UNCHANGED exceptClient

\* ErrorModal onClose: setErrorMsg(null)
CloseError ==
    /\ errorMsg # NoError
    /\ errorMsg' = NoError
    /\ UNCHANGED <<selectedLanguage, hasStarted, messages, isTyping,
                   currentSessionId, now, creq>>
    /\ UNCHANGED exceptClient

\* startScenario, lines 502-512: up to the await. The scenario buttons are
\* rendered on the chat screen while hasStarted is false.
StartScenario(r) ==
    /\ NextCall(r)
    /\ selectedLanguage # NoLanguage
    /\ ~hasStarted
    /\ hasStarted' = TRUE
    /\ messages' = <<>>
    /\ errorMsg' = NoError
    /\ isTyping' = TRUE
    /\ currentSessionId' = SessionIdAt(now)
    /\ creq' = [ClearedByUser(creq) EXCEPT ![r] =
                   Issued("scenario", messages, <<>>, TRUE, SessionIdAt(now))]
    /\ UNCHANGED <<selectedLanguage, now>>
    /\ UNCHANGED exceptClient

\* handleSendMessage, lines 533-549: up to the await. InputArea is rendered
\* while hasStarted and calls onSend only while it is not disabled.
HandleSendMessage(r) ==
    /\ NextCall(r)
    /\ selectedLanguage # NoLanguage
    /\ hasStarted
    /\ ~isTyping
    /\ LET userMsg == Message("user", r)
           list == Append(messages, userMsg)     \* setMessages(prev => [...prev, userMsg])
           typing == TRUE                        \* setIsTyping(true)
       IN /\ errorMsg' = NoError
          /\ messages' = list
          /\ isTyping' = typing
          /\ creq' = [creq EXCEPT ![r] =
                         Issued("send", messages, list, typing, currentSessionId)]
    /\ UNCHANGED <<selectedLanguage, hasStarted, currentSessionId, now>>
    /\ UNCHANGED exceptClient

\* The rest of the handler once chatWithGemini has settled, lines 550-565
\* (handleSendMessage) and 513-530 (startScenario): the tutor's message is
\* added, or handleError runs; finally setIsTyping(false). Of a call that is
\* over the model keeps what it was, how it ended and what the user was told.
HandlerSettles(r, error, timer) ==
    LET q == creq[r]
        tutorMsg == Message("tutor", r)
        shown == IF error = NoThrow THEN NoError
                 ELSE UserFriendly(error, TutorNameOf(q.language))
    IN /\ messages' = IF error # NoThrow THEN messages
                      ELSE IF q.kind = "send" THEN Append(messages, tutorMsg)
                      ELSE <<tutorMsg>>
       /\ errorMsg' = IF error = NoThrow THEN errorMsg ELSE shown
       /\ hasStarted' = IF error # NoThrow /\ q.kind = "scenario" THEN FALSE
                        ELSE hasStarted
       /\ isTyping' = Finally(isTyping, error)
       /\ creq' = [creq EXCEPT ![r] =
             [IdleClientReq EXCEPT
                 !.pc = "done", !.kind = q.kind,
                 !.timer = timer,
                 !.outcome = IF error = NoThrow THEN "rendered" ELSE "failed",
                 !.shown = shown]]
       /\ UNCHANGED <<selectedLanguage, currentSessionId, now>>
       /\ UNCHANGED exceptClient

\* setTimeout(() => controller.abort(), timeout) fires: fetch rejects with an
\* AbortError, fetchWithTimeout throws the timeout error
TimerFires(r) ==
    /\ creq[r].pc = "fetching"
    /\ creq[r].timer = "armed"
    /\ HandlerSettles(r, FetchCatch(AbortError), "fired")

\* fetch rejects: clearTimeout(id), the error is rethrown
FetchRejects(r, error) ==
    /\ creq[r].pc = "fetching"
    /\ HandlerSettles(r, FetchCatch(error), "cleared")

\* fetch resolves with a response: clearTimeout(id); chatWithGemini goes on
\* to read the body (response.text() or response.json())
FetchResolves(r, ok) ==
    /\ creq[r].pc = "fetching"
    /\ creq' = [creq EXCEPT ![r].pc = "reading", ![r].timer = "cleared",
                            ![r].ok = ok]
    /\ UNCHANGED <<selectedLanguage, hasStarted, messages, isTyping, errorMsg,
                   currentSessionId, now>>
    /\ UNCHANGED exceptClient

\* response.json() of a response that is ok settles
OkBodySettles(r, outcome) ==
    /\ creq[r].pc = "reading"
    /\ creq[r].ok
    /\ HandlerSettles(r, IF outcome = "json" THEN NoThrow ELSE BodyError(outcome),
                      creq[r].timer)

\* response.text() of a response that is not ok resolves:
\* throw new Error(errorMsg)
ErrorBodySettles(r, text) ==
    /\ creq[r].pc = "reading"
    /\ ~creq[r].ok
    /\ HandlerSettles(r, BackendError(text), creq[r].timer)

\* What the network and the timer do to the call r
ClientNetwork(r) ==
    \/ TimerFires(r)
    \/ \E error \in NetworkFailures : FetchRejects(r, error)
    \/ \E ok \in BOOLEAN : FetchResolves(r, ok)
    \/ \E outcome \in BodyOutcomes : OkBodySettles(r, outcome)
    \/ \E text \in ErrorTexts : ErrorBodySettles(r, text)

----------------------------------------------------------------------------
(***************************************************************************)
(* The session server: /api/chat/start and /api/chat/message               *)
(* (src/server.js 98-172)                                                  *)
(***************************************************************************)

\* conversations started in one behaviour
MaxStarts == 2
\* /api/chat/message requests of one conversation
MaxSent == 1

ConvIds == 1..MaxStarts

\* LANGUAGE_CONFIGS of src/server.js
LanguagesS == {"French", "English", "Spanish", "German", "Russian", "Japanese"}

\* The values Date.now().toString() takes
Instants == {SessionIdAt(t) : t \in 1..MaxNow}

\* A conversation of a client with the session server: its /api/chat/start
\* request, the sessionId the response gave it, and its messages. chat is
\* the chat object made for it, target the one its message was sent to.
IdleConv ==
    [pc |-> "idle", sessionId |-> NoSession, chat |-> NoChat, target |-> NoChat,
     sent |-> 0, res |-> NoResponse]

\* POST /api/chat/start, lines 98-137: up to the await of sendMessage, or
\* to the 400 response
ChatStart(c, language) ==
    /\ sconv[c].pc = "idle"
    /\ \A d \in ConvIds : d < c => sconv[d].pc # "idle"
    /\ IF language \notin LanguagesS
       THEN /\ sconv' = [sconv EXCEPT ![c].pc = "refused",
                             ![c].res = Response(400, ErrorBody("Invalid language"))]
            /\ UNCHANGED <<serverSessions, serverChats>>
       ELSE LET sessionId == SessionIdAt(now)     \* Date.now().toString()
                created == Len(serverChats) + 1
            IN /\ serverChats' = Append(serverChats, <<>>)
               /\ serverSessions' = [serverSessions EXCEPT ![sessionId] = created]
               /\ sconv' = [sconv EXCEPT ![c].pc = "starting",
                                ![c].sessionId = sessionId, ![c].chat = created]
    /\ UNCHANGED now
    /\ UNCHANGED exceptStart

\* POST /api/chat/start, lines 137-144: sendMessage settles; the response
\* tells the client its sessionId. A failure leaves the entry in the map.
ChatStartSettle(c, gen) ==
    /\ sconv[c].pc = "starting"
    /\ serverChats' = IF gen = "throws" THEN serverChats
                      ELSE [serverChats EXCEPT ![sconv[c].chat] =
                               @ \o <<Turn("user", c), Turn("model", c)>>]
    /\ sconv' = [sconv EXCEPT
          ![c].pc = IF gen = "json" THEN "started" ELSE "failed",
          ![c].res = IF gen = "json" THEN Response(200, TurnBody)
                     ELSE CatchResponse(ErrorMessage(gen))]
    /\ UNCHANGED <<serverSessions, now>>
    /\ UNCHANGED exceptStart

\* POST /api/chat/message, lines 146-156: the client of conversation c sends
\* a message with the sessionId it was given; up to the await of sendMessage
\* (the entry exists: the server never deletes one)
ChatMessage(c) ==
    /\ sconv[c].pc = "started"
    /\ sconv[c].sent < MaxSent
    /\ serverSessions[sconv[c].sessionId] # NoChat
    /\ sconv' = [sconv EXCEPT ![c].pc = "sending",
                     ![c].target = serverSessions[sconv[c].sessionId]]
    /\ UNCHANGED <<serverSessions, serverChats, now>>
    /\ UNCHANGED exceptStart

\* POST /api/chat/message, lines 156-163: sendMessage settles
ChatMessageSettle(c, gen) ==
    /\ sconv[c].pc = "sending"
    /\ serverChats' = IF gen = "throws" THEN serverChats
                      ELSE [serverChats EXCEPT ![sconv[c].target] =
                               @ \o <<Turn("user", c), Turn("model", c)>>]
    /\ sconv' = [sconv EXCEPT
          ![c].pc = "started",
          ![c].sent = @ + 1,
          ![c].res = IF gen = "json" THEN Response(200, TurnBody)
                     ELSE CatchResponse(ErrorMessage(gen))]
    /\ UNCHANGED <<serverSessions, now>>
    /\ UNCHANGED exceptStart

----------------------------------------------------------------------------
(***************************************************************************)
(* The tutor bubbles: src/components/ChatBubble.tsx 859-1040.  Every       *)
(* bubble is one ChatBubble component with its own flags and refs; the     *)
(* bubbles of the model are tutor turns that carry a correction and stay   *)
(* mounted.  A click runs its handler up to the first promise that the     *)
(* browser settles later: the synthesis request of generateSpeech          *)
(* (src/services/geminiService.ts 294-322) and decodeAudioData of an mp3   *)
(* clip; a pcm clip is converted and started without waiting.              *)
(***************************************************************************)

\* calls of handleSpeakTutor and handleSpeakCorrection that pass the guards
MaxSpeaks == 3

BubbleIds == {"b1", "b2"}
SpeakIds == 1..MaxSpeaks

NoType == "null"
CorrectionTypes == {"text", "explanation"}
NoClip == [call |-> 0, format |-> "none", tag |-> "none"]
NoSource == 0
\* data.format of a speech response: the tags the servers send, one they do
\* not send, and no tag
Tags == {"mp3", "pcm", "wav", "undefined"}
\* data.format || 'mp3' of generateSpeech
FormatOf(tag) == IF tag = "undefined" THEN "mp3" ELSE tag

IdleBubble ==
    [isTutorAudioLoading |-> FALSE, isTutorPlaying |-> FALSE,
     isCorrectionLoading |-> FALSE, activeCorrectionType |-> NoType,
     audioCacheRef |-> NoClip, sourceRef |-> NoSource]

\* One call: pc is "idle", "synthesis" (generateSpeech is pending),
\* "decoding" (decodeAudioData is pending), "playing" (its source was
\* started), "stopped" (stop() was called on its source and the ended event
\* is due), "ended" or "failed"; kind is "tutor", "text" or "explanation";
\* synthesis is "none", "cached" (the clip came from audioCacheRef),
\* "pending", "ok" or "failed"; the source of call c is the source c.
IdleSpeak ==
    [pc |-> "idle", bubble |-> "b1", kind |-> "tutor", clip |-> NoClip,
     synthesis |-> "none"]

\* Call ids are handed out in order
NextSpeak(c) ==
    /\ speak[c].pc = "idle"
    /\ \A d \in SpeakIds : d < c => speak[d].pc # "idle"

\* sourceRef.current.stop() of stopAllAudio, lines 917-920
StopSource(sp, ref) ==
    IF ref # NoSource /\ sp[ref].pc = "playing"
    THEN [sp EXCEPT ![ref].pc = "stopped"]
    ELSE sp

\* stopAllAudio, lines 915-930: the flags and the ref of the bubble after it
StopAllAudio(bb) ==
    [bb EXCEPT !.sourceRef = NoSource, !.isTutorPlaying = FALSE,
               !.activeCorrectionType = NoType, !.isTutorAudioLoading = FALSE,
               !.isCorrectionLoading = FALSE]

\* The catch and finally blocks of the two handlers, lines 1000-1005 and
\* 1034-1039
Caught(bb, kind) ==
    IF kind = "tutor"
    THEN [bb EXCEPT !.isTutorPlaying = FALSE, !.isTutorAudioLoading = FALSE]
    ELSE [bb EXCEPT !.activeCorrectionType = NoType, !.isCorrectionLoading = FALSE]

\* playRawAudio from createBufferSource on, lines 962-972, and the rest of
\* the handler that awaited it: the new source is stored in sourceRef and
\* started; nothing is stopped
Started(bb, kind, c) ==
    IF kind = "tutor"
    THEN [bb EXCEPT !.sourceRef = c, !.isTutorPlaying = TRUE,
                    !.isTutorAudioLoading = FALSE]
    ELSE [bb EXCEPT !.sourceRef = c, !.isCorrectionLoading = FALSE]

\* playRawAudio(clip) is called for call c of bubble b: an mp3 clip waits
\* for decodeAudioData, any other clip is read as 16-bit PCM and starts at
\* once
PlayRawAudio(bb, sp, c, b, kind, clip, how) ==
    IF clip.format = "mp3"
    THEN [bubble |-> bb,
          speak |-> [sp EXCEPT ![c] = [pc |-> "decoding", bubble |-> b, kind |-> kind,
                                       clip |-> clip, synthesis |-> how]]]
    ELSE [bubble |-> Started(bb, kind, c),
          speak |-> [sp EXCEPT ![c] = [pc |-> "playing", bubble |-> b, kind |-> kind,
                                       clip |-> clip, synthesis |-> how]]]

\* A click on the tutor button, which is disabled while isTutorAudioLoading:
\* handleSpeakTutor, lines 1009-1040, up to its first pending promise
HandleSpeakTutor(b) ==
    LET bb == bubble[b] IN
    /\ ~bb.isTutorAudioLoading
    /\ IF bb.isTutorPlaying
       THEN /\ bubble' = [bubble EXCEPT ![b] = StopAllAudio(bb)]
            /\ speak' = StopSource(speak, bb.sourceRef)
       ELSE \E c \in SpeakIds :
            /\ NextSpeak(c)
            /\ LET stopped == IF bb.activeCorrectionType # NoType
                              THEN StopAllAudio(bb) ELSE bb
                   sp == IF bb.activeCorrectionType # NoType
                         THEN StopSource(speak, bb.sourceRef) ELSE speak
                   loading == [stopped EXCEPT !.isTutorAudioLoading = TRUE]
               IN  IF bb.audioCacheRef # NoClip
                   THEN LET after == PlayRawAudio(loading, sp, c, b, "tutor",
                                                  bb.audioCacheRef, "cached")
                        IN  /\ bubble' = [bubble EXCEPT ![b] = after.bubble]
                            /\ speak' = after.speak
                   ELSE /\ bubble' = [bubble EXCEPT ![b] = loading]
                        /\ speak' = [sp EXCEPT ![c] =
                               [pc |-> "synthesis", bubble |-> b, kind |-> "tutor",
                                clip |-> NoClip, synthesis |-> "pending"]]
    /\ UNCHANGED exceptAudio

\* A click on one of the two correction buttons, which is disabled while the
\* other one loads: handleSpeakCorrection, lines 976-1006, up to its pending
\* synthesis request
HandleSpeakCorrection(b, type) ==
    LET bb == bubble[b] IN
    /\ ~bb.isCorrectionLoading
    /\ IF bb.activeCorrectionType = type
       THEN /\ bubble' = [bubble EXCEPT ![b] = StopAllAudio(bb)]
            /\ speak' = StopSource(speak, bb.sourceRef)
       ELSE \E c \in SpeakIds :
            /\ NextSpeak(c)
            /\ bubble' = [bubble EXCEPT ![b] =
                   [StopAllAudio(bb) EXCEPT !.isCorrectionLoading = TRUE,
                                            !.activeCorrectionType = type]]
            /\ speak' = [StopSource(speak, bb.sourceRef) EXCEPT ![c] =
                   [pc |-> "synthesis", bubble |-> b, kind |-> type,
                    clip |-> NoClip, synthesis |-> "pending"]]
    /\ UNCHANGED exceptAudio

\* generateSpeech of call c resolves with a clip of the given format tag: the
\* tutor handler stores it in audioCacheRef (line 1028), and both handlers
\* go on to playRawAudio
SpeechResolves(c, tag) ==
    LET b == speak[c].bubble
        kind == speak[c].kind
        clip == [call |-> c, format |-> FormatOf(tag), tag |-> tag]
        cached == IF kind = "tutor"
                  THEN [bubble[b] EXCEPT !.audioCacheRef = clip] ELSE bubble[b]
        after == PlayRawAudio(cached, speak, c, b, kind, clip, "ok")
    IN  /\ speak[c].pc = "synthesis"
        /\ bubble' = [bubble EXCEPT ![b] = after.bubble]
        /\ speak' = after.speak
        /\ UNCHANGED exceptAudio

\* generateSpeech of call c rejects (a timeout, the network, a response that
\* is not ok): the catch and finally blocks run
SpeechRejects(c) ==
    LET b == speak[c].bubble IN
    /\ speak[c].pc = "synthesis"
    /\ bubble' = [bubble EXCEPT ![b] = Caught(bubble[b], speak[c].kind)]
    /\ speak' = [speak EXCEPT ![c].pc = "failed", ![c].synthesis = "failed"]
    /\ UNCHANGED exceptAudio

\* decodeAudioData of call c settles: the source is made and started, or the
\* catch and finally blocks run
DecodeSettles(c, decoded) ==
    LET b == speak[c].bubble IN
    /\ speak[c].pc = "decoding"
    /\ IF decoded
       THEN /\ bubble' = [bubble EXCEPT ![b] = Started(bubble[b], speak[c].kind, c)]
            /\ speak' = [speak EXCEPT ![c].pc = "playing"]
       ELSE /\ bubble' = [bubble EXCEPT ![b] = Caught(bubble[b], speak[c].kind)]
            /\ speak' = [speak EXCEPT ![c].pc = "failed"]
    /\ UNCHANGED exceptAudio

\* The ended event of the source of call c, lines 967-970: the clip has
\* played to its end or stop() was called on the source
OnEnded(c) ==
    LET b == speak[c].bubble IN
    /\ speak[c].pc \in {"playing", "stopped"}
    /\ bubble' = [bubble EXCEPT ![b] =
           IF speak[c].kind = "tutor"
           THEN [bubble[b] EXCEPT !.sourceRef = NoSource, !.isTutorPlaying = FALSE]
           ELSE [bubble[b] EXCEPT !.sourceRef = NoSource,
                                  !.activeCorrectionType = NoType]]
    /\ speak' = [speak EXCEPT ![c].pc = "ended"]
    /\ UNCHANGED exceptAudio

----------------------------------------------------------------------------
(***************************************************************************)
(* The input area: the record button of src/services/geminiService.ts      *)
(* 548-625 (the later copy of components/InputArea.tsx).  A press calls    *)
(* startRecording, which waits for getUserMedia; mouseup, mouseleave and   *)
(* touchend call stopRecordingAndSend; a recorder that was told to stop    *)
(* gets its stop event later.  Presses while the input is disabled return  *)
(* at once and are left out.                                               *)
(***************************************************************************)

\* MediaRecorders asked for in one behaviour
MaxRecorders == 3
\* `duration < 1000`
MinDuration == 1000

RecIds == 1..MaxRecorders
NoRecorder == 0
\* The values Date.now() takes in the model
Times == {0, MinDuration - 1, MinDuration, 2 * MinDuration - 1, 2 * MinDuration}

\* One recorder: pc is "idle", "asking" (getUserMedia is pending), "denied",
\* "recording", "stopping" (stop() was called with onstop set and the stop
\* event is due) or "inactive"; live: the tracks of its stream are live;
\* duration: Date.now() - startTimeRef at the release that stopped it
IdleRecorder == [pc |-> "idle", live |-> FALSE, duration |-> 0]

\* The clock moves on
Elapse ==
    /\ \E t \in Times : t > dateNow /\ dateNow' = t
    /\ UNCHANGED <<inputArea, recorders, sentAudio, exceptRec>>

\* mousedown or touchstart on the record button: startRecording, lines
\* 548-555, up to `await getUserMedia`
StartRecording(r) ==
    /\ ~inputArea.held
    /\ IF inputArea.isHoldingRef
       THEN /\ inputArea' = [inputArea EXCEPT !.held = TRUE]
            /\ UNCHANGED recorders
       ELSE /\ recorders[r].pc = "idle"
            /\ \A q \in RecIds : q < r => recorders[q].pc # "idle"
            /\ inputArea' = [inputArea EXCEPT !.held = TRUE]
            /\ recorders' = [recorders EXCEPT ![r].pc = "asking"]
    /\ UNCHANGED <<dateNow, sentAudio, exceptRec>>

\* getUserMedia of recorder r settles: lines 557-584 make and start the
\* recorder, or the catch block of lines 586-589 runs
PermissionSettles(r, granted) ==
    /\ recorders[r].pc = "asking"
    /\ IF granted
       THEN /\ recorders' = [recorders EXCEPT ![r].pc = "recording", ![r].live = TRUE]
            /\ inputArea' = [inputArea EXCEPT !.mediaRecorderRef = r,
                                              !.startTimeRef = dateNow,
                                              !.isHoldingRef = TRUE,
                                              !.isRecording = TRUE]
       ELSE /\ recorders' = [recorders EXCEPT ![r].pc = "denied"]
            /\ UNCHANGED inputArea
    /\ UNCHANGED <<dateNow, sentAudio, exceptRec>>

\* mouseup or touchend while the button is held, or mouseleave at any time:
\* stopRecordingAndSend, lines 591-625
StopRecordingAndSend(event) ==
    LET r == inputArea.mediaRecorderRef
        duration == dateNow - inputArea.startTimeRef
        released == [inputArea EXCEPT !.held = FALSE, !.isHoldingRef = FALSE]
    IN  /\ event = "up" => inputArea.held
        /\ IF ~inputArea.isHoldingRef
           THEN /\ inputArea' = [inputArea EXCEPT !.held = FALSE]
                /\ UNCHANGED recorders
           ELSE IF r = NoRecorder \/ recorders[r].pc # "recording"
           THEN /\ inputArea' = released
                /\ UNCHANGED recorders
           ELSE IF duration < MinDuration
           THEN /\ inputArea' = [released EXCEPT !.mediaRecorderRef = NoRecorder,
                                                 !.isRecording = FALSE]
                /\ recorders' = [recorders EXCEPT ![r] =
                       [pc |-> "inactive", live |-> FALSE, duration |-> duration]]
           ELSE /\ inputArea' = released
                /\ recorders' = [recorders EXCEPT ![r].pc = "stopping",
                                                  ![r].duration = duration]
        /\ UNCHANGED <<dateNow, sentAudio, exceptRec>>

\* The stop event of recorder r: the onstop of lines 610-622 stops the tracks
\* of the recorder that mediaRecorderRef names now, clears the ref and
\* passes the blob to onSend; a recorder whose tracks have ended is inactive
OnStop(r) ==
    LET cur == inputArea.mediaRecorderRef IN
    /\ recorders[r].pc = "stopping"
    /\ recorders' = [q \in RecIds |->
           IF q = cur THEN [recorders[q] EXCEPT !.pc = "inactive", !.live = FALSE]
           ELSE IF q = r THEN [recorders[q] EXCEPT !.pc = "inactive"]
           ELSE recorders[q]]
    /\ inputArea' = [inputArea EXCEPT !.mediaRecorderRef = NoRecorder,
                                      !.isRecording = FALSE]
    /\ sentAudio' = sentAudio \cup {[recorder |-> r, duration |-> recorders[r].duration]}
    /\ UNCHANGED <<dateNow, exceptRec>>

----------------------------------------------------------------------------
(***************************************************************************)
(* POST /api/tts.  Three handlers: "edge" (src/api/index.js 296-338) and   *)
(* "edge2" (src/api/index.js 554-624) race MsEdgeTTS against a timer of    *)
(* 15 s, "gemini" (src/server.js 173-200) awaits generateContent.          *)
(***************************************************************************)

\* /api/tts requests received in one behaviour
MaxTtsReqs == 2

TtsReqIds == 1..MaxTtsReqs
TtsVariants == {"edge", "edge2", "gemini"}
\* what the synthesis settles with: audio bytes, no bytes at all (a stream
\* that ends without a chunk, a candidate without inlineData), or an error
TtsOutcomes == {"audio", "empty", "error"}

\* One request: pc is "idle", "synthesizing" or "responded"; elapsed: 15 s
\* have passed since it was received; responses counts res.json calls;
\* status and audioData are those of the response
IdleTts ==
    [pc |-> "idle", variant |-> "edge", elapsed |-> FALSE, responses |-> 0,
     status |-> 0, audioData |-> "none"]

\* res.status(status).json(...) of request r
TtsRespond(r, status, audioData) ==
    [tts EXCEPT ![r].pc = "responded", ![r].status = status,
                ![r].audioData = audioData, ![r].responses = @ + 1]

\* The handler up to its await: the checks of text (index.js 300, 559) and
\* of voiceName (index.js 563); src/server.js checks nothing
TtsReceive(r, variant, hasText, hasVoice) ==
    /\ tts[r].pc = "idle"
    /\ \A q \in TtsReqIds : q < r => tts[q].pc # "idle"
    /\ LET received == [tts EXCEPT ![r].variant = variant] IN
       tts' = IF variant # "gemini" /\ ~hasText
                 THEN [received EXCEPT ![r].pc = "responded", ![r].status = 400,
                                       ![r].responses = @ + 1]
              ELSE IF variant = "edge2" /\ ~hasVoice
                 THEN [received EXCEPT ![r].pc = "responded", ![r].status = 400,
                                       ![r].responses = @ + 1]
              ELSE [received EXCEPT ![r].pc = "synthesizing"]
    /\ UNCHANGED exceptTts

\* 15 s after request r was received: the timer of the Edge handlers rejects
\* timeoutPromise (index.js 307-309, 571-573), which wins Promise.race if
\* the synthesis is still pending; src/server.js has no timer
TtsFifteenSeconds(r) ==
    /\ tts[r].pc # "idle"
    /\ ~tts[r].elapsed
    /\ tts' = IF tts[r].pc = "synthesizing" /\ tts[r].variant # "gemini"
              THEN [TtsRespond(r, 500, "none") EXCEPT ![r].elapsed = TRUE]
              ELSE [tts EXCEPT ![r].elapsed = TRUE]
    /\ UNCHANGED exceptTts

\* The synthesis of request r settles.  Edge: the stream ends and the chunks
\* are concatenated and sent (index.js 319-322, 332, 584-588, 603), or it
\* fails.  Gemini: an empty audioData throws (server.js 190-193).
TtsSettles(r, outcome) ==
    /\ tts[r].pc = "synthesizing"
    /\ tts' = IF outcome = "error" THEN TtsRespond(r, 500, "none")
              ELSE IF outcome = "empty" /\ tts[r].variant = "gemini"
                   THEN TtsRespond(r, 500, "none")
              ELSE TtsRespond(r, 200, outcome)
    /\ UNCHANGED exceptTts

----------------------------------------------------------------------------
(***************************************************************************)
(* The Supabase singleton: src/unnamed/part_006 9-51.  The clients that    *)
(* createClient returns are numbered in the order of their creation.       *)
(***************************************************************************)

\* calls of initSupabase in one behaviour
MaxInits == 4

\* supabaseInstance = null
NoInstance == 0

\* Faulty variant of Existing: the instance is never reused
ExistingIgnored(instance) == FALSE

\* `if (supabaseInstance)` of line 12
Existing(instance) == instance # NoInstance

\* The variables of process.env that lines 14-15 read
UrlNames == {"VITE_SUPABASE_URL", "SUPABASE_URL"}
KeyNames == {"VITE_SUPABASE_ANON_KEY", "SUPABASE_ANON_KEY", "SUPABASE_SERVICE_KEY"}

\* process.env is changed: a variable is set or deleted
SetEnv(name, present) ==
    /\ supabase' = [supabase EXCEPT !.env = IF present THEN @ \cup {name}
                                                        ELSE @ \ {name}]
    /\ UNCHANGED exceptSupabase

\* One call of initSupabase, lines 11-32; created tells whether createClient
\* returns a client or throws; returned lists what the calls have returned
InitSupabase(created) ==
    /\ Len(supabase.returned) < MaxInits
    /\ supabase' =
         IF Existing(supabase.instance)
         THEN [supabase EXCEPT !.returned = Append(@, supabase.instance)]
         ELSE IF supabase.env \cap UrlNames # {} /\ supabase.env \cap KeyNames # {}
         THEN IF created
              THEN [supabase EXCEPT !.calls = @ + 1, !.instance = supabase.calls + 1,
                                    !.returned = Append(@, supabase.calls + 1)]
              ELSE [supabase EXCEPT !.calls = @ + 1,
                                    !.returned = Append(@, NoInstance)]
         ELSE [supabase EXCEPT !.returned = Append(@, NoInstance)]
    /\ UNCHANGED exceptSupabase

\* resetSupabase, lines 49-51
ResetSupabase ==
    /\ supabase' = [supabase EXCEPT !.instance = NoInstance]
    /\ UNCHANGED exceptSupabase

----------------------------------------------------------------------------
(***************************************************************************)
(* parseGeminiJson: src/server.js 72-94 and src/api/index.js 71-83.  A     *)
(* text is a sequence of pieces: "{", "}", "k" (a key with its colon),     *)
(* "v" (a number, string, true, false or null), "f" (a code-fence marker,  *)
(* ```json or ```) and "x" (prose).  The value of a JSON text is the text  *)
(* itself.                                                                 *)
(***************************************************************************)

\* pieces in a text
MaxLen == 4

Texts == UNION {[1..n -> {"{", "}", "k", "v", "f", "x"}] : n \in 0..MaxLen}

RECURSIVE IsJson(_)
\* JSON.parse(s) returns: s is a scalar, {} or an object with one member
IsJson(s) ==
    \/ s = <<"v">>
    \/ /\ Len(s) >= 2
       /\ s[1] = "{"
       /\ s[Len(s)] = "}"
       /\ \/ Len(s) = 2
          \/ Len(s) >= 4 /\ s[2] = "k" /\ IsJson(SubSeq(s, 3, Len(s) - 1))

\* text.replace(/```json\n?|```/g, '')
WithoutFences(s) == SelectSeq(s, LAMBDA p : p # "f")

\* String.prototype.indexOf and lastIndexOf, from 0, -1 when absent
IndexOf(s, p) ==
    IF \E i \in 1..Len(s) : s[i] = p
    THEN (CHOOSE i \in 1..Len(s) : s[i] = p /\ \A j \in 1..(i - 1) : s[j] # p) - 1
    ELSE -1
LastIndexOf(s, p) ==
    IF \E i \in 1..Len(s) : s[i] = p
    THEN (CHOOSE i \in 1..Len(s) : s[i] = p /\ \A j \in (i + 1)..Len(s) : s[j] # p) - 1
    ELSE -1

\* String.prototype.substring(start, end): from 0, end excluded, and the
\* two arguments are swapped when start is greater than end
Substring(s, start, end) ==
    IF start <= end THEN SubSeq(s, start + 1, end) ELSE SubSeq(s, end + 1, start)

\* What a call gives: a value or a thrown Error
Returns(value) == [threw |-> FALSE, value |-> value]
Throws == [threw |-> TRUE, value |-> <<>>]

\* parseGeminiJson(text)
ParseGeminiJson(text) ==
    IF IsJson(text) THEN Returns(text)
    ELSE LET cleaned == WithoutFences(text)
             firstBrace == IndexOf(cleaned, "{")
             lastBrace == LastIndexOf(cleaned, "}")
             jsonStr == Substring(cleaned, firstBrace, lastBrace + 1)
         IN  IF firstBrace # -1 /\ lastBrace # -1
             THEN IF IsJson(jsonStr) THEN Returns(jsonStr) ELSE Throws
             ELSE Throws

\* A handler calls parseGeminiJson on the text of a model response; the
\* model follows one call
CallParseGeminiJson(text) ==
    /\ parsed.text = <<>>
    /\ parsed' = [text |-> text, outcome |-> ParseGeminiJson(text)]
    /\ UNCHANGED exceptParse

----------------------------------------------------------------------------
(***************************************************************************)
(* Specifications                                                          *)
(***************************************************************************)

HistIdle ==
    /\ server = "index"
    /\ chatSessionsH = [s \in SessionIds |-> [present |-> FALSE, history |-> <<>>]]
    /\ users = [u \in UserIds |->
                  [registered |-> FALSE, history |-> <<>>, isPremium |-> FALSE]]
    /\ hreq = [r \in HistReqIds |-> IdleHistReq]
    /\ conv = [k \in SessionIds \cup UserIds |-> 0]

StatefulIdle ==
    /\ chatSessions = [s \in SessionIds |-> NoChat]
    /\ chats = <<>>
    /\ sreq = [r \in StatefulReqIds |-> IdleStatefulReq]
    /\ apiKey = TRUE

RetryIdle == rop = RetryCalled(DefaultRetries, DefaultDelay)

\* The session server has started: no session, no conversation
StartIdle ==
    /\ serverSessions = [i \in Instants |-> NoChat]
    /\ serverChats = <<>>
    /\ sconv = [c \in ConvIds |-> IdleConv]

\* No response was parsed: as after the parse of an empty text
ParseIdle == parsed = [text |-> <<>>, outcome |-> Throws]

\* The module is loaded: no client, the credentials are in the environment
SupabaseIdle ==
    supabase = [instance |-> NoInstance,
                env |-> {"VITE_SUPABASE_URL", "VITE_SUPABASE_ANON_KEY"},
                calls |-> 0, returned |-> <<>>]

\* No /api/tts request was received
TtsIdle == tts = [r \in TtsReqIds |-> IdleTts]

\* The input area is rendered: the button is up, the microphone is free
RecIdle ==
    /\ inputArea = [held |-> FALSE, isHoldingRef |-> FALSE, isRecording |-> FALSE,
                    mediaRecorderRef |-> NoRecorder, startTimeRef |-> 0]
    /\ recorders = [r \in RecIds |-> IdleRecorder]
    /\ dateNow = 0
    /\ sentAudio = {}

\* The bubbles are rendered: nothing was clicked
AudioIdle ==
    /\ bubble = [b \in BubbleIds |-> IdleBubble]
    /\ speak = [c \in SpeakIds |-> IdleSpeak]

\* The page is loaded: no language is selected, nothing was sent
ClientIdle ==
    /\ selectedLanguage = NoLanguage
    /\ hasStarted = FALSE
    /\ messages = <<>>
    /\ isTyping = FALSE
    /\ errorMsg = NoError
    /\ now = 1
    /\ currentSessionId = SessionIdAt(now)
    /\ creq = [r \in ClientReqIds |-> IdleClientReq]

\* States of the two maps that earlier successful exchanges leave behind: a
\* guest session of 0 or 500 turns (0 or 20 turns in part_008), a user who is
\* unknown, free with 0, 50 or 52 turns (a free user's stored history never
\* grows past 52), or premium with 500 turns; part_008 has no users map.
GuestPreloads(variant) ==
    IF variant = "index" THEN {0, HardCap} ELSE {0, FallbackCap}
UserPreloads ==
    {[registered |-> FALSE, isPremium |-> FALSE, n |-> 0],
     [registered |-> TRUE, isPremium |-> FALSE, n |-> 0],
     [registered |-> TRUE, isPremium |-> FALSE, n |-> FreeTurns],
     [registered |-> TRUE, isPremium |-> FALSE, n |-> FreeTurns + 2],
     [registered |-> TRUE, isPremium |-> TRUE, n |-> HardCap]}

\* The callers of the model: two guests, and a request that names user u1
HistCallers ==
    {[sessionId |-> "s1", userId |-> NoUser],
     [sessionId |-> "s2", userId |-> NoUser],
     [sessionId |-> "s1", userId |-> "u1"]}

\* The request bodies of the model: every caller with and without parts in
\* French
HistRequests ==
    {[sessionId |-> c.sessionId, userId |-> c.userId, language |-> "French",
      hasParts |-> b] : c \in HistCallers, b \in BOOLEAN}

\* A guest's message in a language the server does not have
OddRequests ==
    {[sessionId |-> "s2", userId |-> NoUser, language |-> "Klingon",
      hasParts |-> TRUE]}

HistInit ==
    /\ server \in Servers
    /\ \E n \in GuestPreloads(server) :
          chatSessionsH = [s \in SessionIds |->
              IF s = "s1" /\ n > 0
              THEN [present |-> TRUE, history |-> Conversation(n)]
              ELSE [present |-> FALSE, history |-> <<>>]]
    /\ \E p \in UserPreloads :
          /\ server = "part_008" => ~p.registered
          /\ users = [u \in UserIds |->
                 [registered |-> p.registered, history |-> Conversation(p.n),
                  isPremium |-> p.isPremium]]
    /\ hreq = [r \in HistReqIds |-> IdleHistReq]
    /\ conv = [k \in SessionIds \cup UserIds |-> Len(Stored(k))]
    /\ StatefulIdle
    /\ RetryIdle
    /\ ClientIdle
    /\ StartIdle
    /\ AudioIdle
    /\ RecIdle
    /\ TtsIdle
    /\ SupabaseIdle
    /\ ParseIdle

HistNext ==
    \/ \E u \in UserIds : AuthGoogle(u)
    \/ \E u \in UserIds : ConfirmPayment(u)
    \/ \E r \in HistReqIds, b \in HistRequests :
          HistChatReceive(r, b.sessionId, b.userId, b.language, b.hasParts)
    \/ \E r \in HistReqIds, gen \in GenOutcomes : HistChatSettle(r, gen)

\* The history-array server with requests in a supported language whose
\* clients wait for the response
HistSpec == HistInit /\ [][HistNext]_vars

\* The same server with requests in any language and with clients that give
\* up waiting
HistOpenNext ==
    \/ HistNext
    \/ \E r \in HistReqIds, b \in OddRequests :
          HistChatReceive(r, b.sessionId, b.userId, b.language, b.hasParts)
    \/ \E r \in HistReqIds : ClientAborts(r)

HistOpenSpec == HistInit /\ [][HistOpenNext]_vars

\* The stateful server starts with an empty map; API_KEY is set or not.
StatefulInit ==
    /\ chatSessions = [s \in SessionIds |-> NoChat]
    /\ chats = <<>>
    /\ sreq = [r \in StatefulReqIds |-> IdleStatefulReq]
    /\ apiKey \in BOOLEAN
    /\ HistIdle
    /\ RetryIdle
    /\ ClientIdle
    /\ StartIdle
    /\ AudioIdle
    /\ RecIdle
    /\ TtsIdle
    /\ SupabaseIdle
    /\ ParseIdle

StatefulNext ==
    \/ \E r \in StatefulReqIds, b \in StatefulRequests :
          StatefulReceive(r, b.sessionId, b.language, b.scenario, b.message)
    \/ \E r \in StatefulReqIds, gen \in GenOutcomes : StatefulSettle(r, gen)

StatefulSpec == StatefulInit /\ [][StatefulNext]_vars

RetryInit ==
    /\ \E retries \in 0..MaxRetries, delay \in RetryDelays :
          rop = RetryCalled(retries, delay)
    /\ HistIdle
    /\ StatefulIdle
    /\ ClientIdle
    /\ StartIdle
    /\ AudioIdle
    /\ RecIdle
    /\ TtsIdle
    /\ SupabaseIdle
    /\ ParseIdle

RetryNext ==
    \/ RetryInvoke
    \/ \E ok \in BOOLEAN : RetrySettle(ok)
    \/ RetryTimer

\* The invocation is synchronous, a timer that was started fires, and the
\* promise of an invoked operation settles.
RetrySpec == RetryInit /\ [][RetryNext]_vars /\ WF_vars(RetryNext)

ClientInit ==
    /\ ClientIdle
    /\ HistIdle
    /\ StatefulIdle
    /\ RetryIdle
    /\ StartIdle
    /\ AudioIdle
    /\ RecIdle
    /\ TtsIdle
    /\ SupabaseIdle
    /\ ParseIdle

ClientNext ==
    \/ Tick
    \/ \E lang \in ClientLanguages : HandleLanguageSelect(lang)
    \/ HandleBackToSelection
    \/ HandleReset
    \/ CloseError
    \/ \E r \in ClientReqIds : StartScenario(r)
    \/ \E r \in ClientReqIds : HandleSendMessage(r)
    \/ \E r \in ClientReqIds : ClientNetwork(r)

\* The timer of a fetch that is outstanding fires unless the fetch settles,
\* and the browser settles the read of a body.
ClientSpec ==
    ClientInit /\ [][ClientNext]_vars
    /\ \A r \in ClientReqIds : WF_vars(ClientNetwork(r))

StartInit ==
    /\ StartIdle
    /\ HistIdle
    /\ StatefulIdle
    /\ RetryIdle
    /\ ClientIdle
    /\ AudioIdle
    /\ RecIdle
    /\ TtsIdle
    /\ SupabaseIdle
    /\ ParseIdle

StartNext ==
    \/ Tick
    \/ \E c \in ConvIds, language \in {"French", "Klingon"} : ChatStart(c, language)
    \/ \E c \in ConvIds, gen \in GenOutcomes : ChatStartSettle(c, gen)
    \/ \E c \in ConvIds : ChatMessage(c)
    \/ \E c \in ConvIds, gen \in GenOutcomes : ChatMessageSettle(c, gen)

StartSpec == StartInit /\ [][StartNext]_vars

AudioInit ==
    /\ AudioIdle
    /\ RecIdle
    /\ TtsIdle
    /\ SupabaseIdle
    /\ ParseIdle
    /\ HistIdle
    /\ StatefulIdle
    /\ RetryIdle
    /\ ClientIdle
    /\ StartIdle

AudioNext ==
    \/ \E b \in BubbleIds : HandleSpeakTutor(b)
    \/ \E b \in BubbleIds, type \in CorrectionTypes : HandleSpeakCorrection(b, type)
    \/ \E c \in SpeakIds, tag \in Tags : SpeechResolves(c, tag)
    \/ \E c \in SpeakIds : SpeechRejects(c)
    \/ \E c \in SpeakIds, decoded \in BOOLEAN : DecodeSettles(c, decoded)
    \/ \E c \in SpeakIds : OnEnded(c)

AudioSpec == AudioInit /\ [][AudioNext]_vars

\* Every component is in the state its program text gives it
Loaded ==
    /\ HistIdle
    /\ StatefulIdle
    /\ RetryIdle
    /\ ClientIdle
    /\ StartIdle
    /\ AudioIdle
    /\ RecIdle
    /\ TtsIdle
    /\ SupabaseIdle
    /\ ParseIdle

RecNext ==
    \/ Elapse
    \/ \E r \in RecIds : StartRecording(r)
    \/ \E r \in RecIds, granted \in BOOLEAN : PermissionSettles(r, granted)
    \/ \E event \in {"up", "leave"} : StopRecordingAndSend(event)
    \/ \E r \in RecIds : OnStop(r)

\* The browser settles getUserMedia and delivers the stop event
RecSpec ==
    Loaded /\ [][RecNext]_vars
    /\ \A r \in RecIds :
          /\ WF_vars(\E granted \in BOOLEAN : PermissionSettles(r, granted))
          /\ WF_vars(OnStop(r))

TtsNext ==
    \/ \E r \in TtsReqIds, variant \in TtsVariants, hasText, hasVoice \in BOOLEAN :
          TtsReceive(r, variant, hasText, hasVoice)
    \/ \E r \in TtsReqIds : TtsFifteenSeconds(r)
    \/ \E r \in TtsReqIds, outcome \in TtsOutcomes : TtsSettles(r, outcome)

TtsSpec == Loaded /\ [][TtsNext]_vars

SupabaseNext ==
    \/ \E name \in UrlNames \cup KeyNames, present \in BOOLEAN : SetEnv(name, present)
    \/ \E created \in BOOLEAN : InitSupabase(created)
    \/ ResetSupabase

SupabaseSpec == Loaded /\ [][SupabaseNext]_vars

ParseNext == \E text \in Texts : CallParseGeminiJson(text)

ParseSpec == Loaded /\ [][ParseNext]_vars

----------------------------------------------------------------------------
(***************************************************************************)
(* Properties of the history-array handler                                 *)
(***************************************************************************)

Callers == SessionIds \cup UserIds

\* The caller a received request belongs to
CallerKey(q) == IF q.kind = "guest" THEN q.sessionId ELSE q.userId

\* Steps of request r, as seen in a pair of states
ReceiveStepH(r) == hreq[r].pc = "idle" /\ hreq'[r].pc # "idle"
SuccessStepH(r) ==
    hreq[r].pc = "awaiting" /\ hreq'[r].pc = "done" /\ hreq'[r].res.status = 200
FailStepH(r) ==
    hreq[r].pc = "awaiting" /\ hreq'[r].pc = "done" /\ hreq'[r].res.status # 200

\* r reached the generation call (it was not answered 400 before it)
CalledGeneration(r) ==
    hreq[r].pc = "awaiting" \/ (hreq[r].pc = "done" /\ hreq[r].res.status # 400)

Succeeded(r) == hreq[r].pc = "done" /\ hreq[r].res.status = 200

Alternates(h) == \A i \in 1..(Len(h) - 1) : h[i].role # h[i + 1].role
WholePairs(h) ==
    /\ Len(h) % 2 = 0
    /\ \A i \in 1..Len(h) : h[i].role = (IF i % 2 = 1 THEN "user" ELSE "model")
Contiguous(h) == \A i \in 1..(Len(h) - 1) : h[i + 1].pos = h[i].pos + 1

\* C3: every successful exchange, of a guest, a free user or a premium user,
\* leaves the caller's stored history ending with the new user turn followed
\* by the new model turn, on top of what was stored before.
C3_SuccessAppendsPair ==
    [][\A r \in HistReqIds :
         SuccessStepH(r) =>
            LET k == CallerKey(hreq[r])
                before == Stored(k)
                after == StoredIn(chatSessionsH', users', k)
                pair == <<Turn("user", conv[k] + 1), Turn("model", conv[k] + 2)>>
            IN /\ Len(after) >= 2
               /\ IsSuffix(after, before \o pair)
               /\ SubSeq(after, Len(after) - 1, Len(after)) = pair]_vars

\* C4: no two requests of one guest session are awaiting the generation call
\* at the same time.
C4_OneInFlightPerSession ==
    \A r1, r2 \in HistReqIds :
        /\ r1 # r2
        /\ hreq[r1].pc = "awaiting" /\ hreq[r2].pc = "awaiting"
        /\ hreq[r1].kind = "guest" /\ hreq[r2].kind = "guest"
        => hreq[r1].sessionId # hreq[r2].sessionId

\* C5: of two successful requests of one guest session, the one received
\* first has its pair appended first, and the context of the later one holds
\* the turns of the earlier one.
C5_AppendedInAcceptOrder ==
    \A r1, r2 \in HistReqIds :
        /\ r1 < r2
        /\ Succeeded(r1) /\ Succeeded(r2)
        /\ hreq[r1].kind = "guest" /\ hreq[r2].kind = "guest"
        /\ hreq[r1].sessionId = hreq[r2].sessionId
        => /\ hreq[r1].firstPos < hreq[r2].firstPos
           /\ \E i \in 1..Len(hreq[r2].prior) :
                 hreq[r2].prior[i].pos = hreq[r1].firstPos

\* C6: every stored history is a sequence of user/model pairs: adjacent
\* turns have different roles, the first turn is a user turn and the last a
\* model turn.
C6_HistoryAlternates ==
    \A k \in Callers : Alternates(Stored(k)) /\ WholePairs(Stored(k))

\* C6 witness: a guest session that was pruned by the cap and then took the
\* pairs of two requests that were in flight together, the later request
\* finishing first.
C6_Witness ==
    \E r1, r2 \in HistReqIds :
        /\ r1 < r2
        /\ Succeeded(r1) /\ Succeeded(r2)
        /\ hreq[r1].kind = "guest" /\ hreq[r2].kind = "guest"
        /\ hreq[r1].sessionId = hreq[r2].sessionId
        /\ hreq[r2].firstPos < hreq[r1].firstPos
        /\ Len(Stored(hreq[r1].sessionId)) = HardCap + 4 - PruneCount
        /\ Stored(hreq[r1].sessionId)[1].pos = PruneCount + 1

\* C7: a stored history never holds more than 500 turns, and its turns are
\* the most recent consecutive turns of the caller's conversation; a step
\* that changes a stored history appends one pair and removes nothing but an
\* even-length prefix of the oldest turns.
C7_CapKeepsRecentSuffix ==
    /\ [](\A k \in Callers :
            /\ Len(Stored(k)) <= HardCap
            /\ Contiguous(Stored(k))
            /\ (Stored(k) # <<>> => Stored(k)[Len(Stored(k))].pos = conv[k]))
    /\ [][\A k \in Callers :
            LET before == Stored(k)
                after == StoredIn(chatSessionsH', users', k)
                dropped == Len(before) + 2 - Len(after)
            IN after # before =>
                 /\ dropped >= 0
                 /\ dropped % 2 = 0
                 /\ Len(after) >= 2
                 /\ SubSeq(after, 1, Len(after) - 2) = SliceFrom(before, dropped)]_vars

\* C8: the prior history a free user's request passes to the generation call
\* holds at most 50 turns, and they are the latest turns of the user's
\* conversation at that time, starting with a user turn.
C8_FreeContextIsLatest ==
    \A r \in HistReqIds :
        hreq[r].kind = "free" /\ CalledGeneration(r) =>
            LET p == hreq[r].prior
                c == hreq[r].convAtStart
            IN /\ Len(p) <= FreeTurns
               /\ Len(p) = Min(FreeTurns, c)
               /\ \A i \in 1..Len(p) : p[i].pos = c - Len(p) + i
               /\ (p # <<>> => p[1].role = "user")

\* C9: a request whose generation call rejects, or whose output does not
\* decode, is answered with a non-2xx { error } and leaves both maps as they
\* were; receiving a request adds no turn to any stored history.
C9_FailureLeavesHistory ==
    [][\A r \in HistReqIds :
         /\ FailStepH(r) =>
               /\ \A k \in Callers :
                     StoredIn(chatSessionsH', users', k) = Stored(k)
               /\ chatSessionsH' = chatSessionsH
               /\ users' = users
               /\ hreq'[r].res.status \notin 200..299
               /\ hreq'[r].res.body.kind = "error"
               /\ hreq'[r].res.body.message # ""
         /\ ReceiveStepH(r) =>
               \A k \in Callers :
                  StoredIn(chatSessionsH', users', k) = Stored(k)]_vars

\* C9 witness: a request of a caller with stored turns has failed after its
\* generation call.
C9_Witness ==
    \E r \in HistReqIds :
        /\ hreq[r].pc = "done"
        /\ hreq[r].res.status = 500
        /\ hreq[r].prior # <<>>
        /\ Stored(CallerKey(hreq[r])) # <<>>

\* C11: a request whose language is not in the supported set is answered
\* with an error response at once: the handler makes no generation call for
\* it, and creates, replaces or deletes no session
C11_UnsupportedLanguageRejected ==
    [][\A r \in HistReqIds :
          (ReceiveStepH(r) /\ hreq'[r].language \notin LanguagesH) =>
              /\ hreq'[r].pc = "done"
              /\ hreq'[r].res.status >= 400
              /\ chatSessionsH' = chatSessionsH
              /\ users' = users]_vars

\* C17: when the client has given up on a request and the generation call of
\* the request succeeds afterwards, the stored history of the caller ends
\* with the user turn and the model turn of that request, and it is made of
\* whole alternating pairs, whatever other requests of the caller did
C17_AbortedTurnPersisted ==
    [][\A r \in HistReqIds :
         (SuccessStepH(r) /\ hreq[r].aborted) =>
            LET k == CallerKey(hreq[r])
                after == StoredIn(chatSessionsH', users', k)
                pair == <<Turn("user", conv[k] + 1), Turn("model", conv[k] + 2)>>
            IN /\ Len(after) >= 2
               /\ SubSeq(after, Len(after) - 1, Len(after)) = pair
               /\ Alternates(after)
               /\ WholePairs(after)]_vars

----------------------------------------------------------------------------
(***************************************************************************)
(* Properties of the stateful handler                                      *)
(***************************************************************************)

\* Steps of request r, as seen in a pair of states
ReceiveStepS(r) == sreq[r].pc = "idle" /\ sreq'[r].pc # "idle"
\* r got as far as the session lookup (it has a chat object)
LookupStepS(r) == ReceiveStepS(r) /\ sreq'[r].chat # NoChat
\* the generation call or the decoding of its output threw
SettleFailStepS(r) ==
    sreq[r].pc = "awaiting" /\ sreq'[r].pc = "done" /\ sreq'[r].res.status # 200

\* C1: a request that reaches the session lookup gets a brand-new chat
\* object without any turn exactly when the map has no entry for its
\* sessionId or it carries a scenario, and the map then points at the new
\* object; otherwise it gets the stored object and nothing is created.
C1_NewSessionIffMissOrScenario ==
    [][\A r \in StatefulReqIds :
         LookupStepS(r) =>
            LET q == sreq'[r]
                old == chatSessions[q.sessionId]
            IN IF old = NoChat \/ q.scenario # NoScenario
               THEN /\ q.isNewSession
                    /\ q.chat \notin DOMAIN chats
                    /\ q.chat # old
                    /\ DOMAIN chats' = DOMAIN chats \cup {q.chat}
                    /\ chats'[q.chat] = <<>>
                    /\ \A c \in DOMAIN chats : chats'[c] = chats[c]
                    /\ (q.pc = "awaiting" => chatSessions'[q.sessionId] = q.chat)
               ELSE /\ ~q.isNewSession
                    /\ q.chat = old
                    /\ chats' = chats
                    /\ (q.pc = "awaiting" => chatSessions' = chatSessions)]_vars

\* C1 witness: on one sessionId a first request created the session, a second
\* one without scenario reused it, and a third one with a scenario replaced
\* it while it held turns.
C1_Witness ==
    \E r1, r2, r3 \in StatefulReqIds :
        /\ r1 < r2 /\ r2 < r3
        /\ sreq[r1].sessionId = sreq[r2].sessionId
        /\ sreq[r2].sessionId = sreq[r3].sessionId
        /\ sreq[r1].isNewSession /\ sreq[r1].res.status = 200
        /\ ~sreq[r2].isNewSession /\ sreq[r2].chat = sreq[r1].chat
        /\ sreq[r2].res.status = 200
        /\ sreq[r3].isNewSession /\ sreq[r3].scenario # NoScenario
        /\ sreq[r3].chat # sreq[r1].chat
        /\ Len(chats[sreq[r1].chat]) = 4
        /\ chatSessions[sreq[r3].sessionId] = sreq[r3].chat
        /\ chats[sreq[r3].chat] = <<>>

\* C2: when the generation call or the decoding throws, the handler removes
\* the map entry of the request's sessionId and answers 500 with the message
\* of what was thrown; and a request that finds no entry for its sessionId
\* starts on a newly created chat object without turns.
C2_FailureInvalidatesSession ==
    [][\A r \in StatefulReqIds :
         /\ SettleFailStepS(r) =>
               /\ chatSessions'[sreq[r].sessionId] = NoChat
               /\ sreq'[r].res.status = 500
               /\ sreq'[r].res.body.kind = "error"
               /\ sreq'[r].thrown # ""
               /\ sreq'[r].res.body.message = sreq'[r].thrown
         /\ (LookupStepS(r) /\ chatSessions[sreq'[r].sessionId] = NoChat) =>
               /\ sreq'[r].isNewSession
               /\ sreq'[r].chat \notin DOMAIN chats
               /\ chats'[sreq'[r].chat] = <<>>]_vars

\* C2 witness: a request failed on a session that held turns, and the next
\* request for that sessionId, which carries no scenario, runs on a new chat
\* object.
C2_Witness ==
    \E r1, r2, r3 \in StatefulReqIds :
        /\ r1 < r2 /\ r2 < r3
        /\ sreq[r1].sessionId = sreq[r2].sessionId
        /\ sreq[r2].sessionId = sreq[r3].sessionId
        /\ sreq[r1].res.status = 200
        /\ sreq[r2].chat = sreq[r1].chat
        /\ sreq[r2].pc = "done" /\ sreq[r2].res.status = 500
        /\ sreq[r2].thrown = ErrorMessage("throws")
        /\ sreq[r3].pc = "awaiting"
        /\ sreq[r3].scenario = NoScenario
        /\ sreq[r3].isNewSession
        /\ sreq[r3].chat # sreq[r1].chat
        /\ chats[sreq[r3].chat] = <<>>
        /\ chats[sreq[r1].chat] # <<>>

\* C28: a step of a request leaves the chatSessions entry of every other
\* sessionId as it is: the entry is not created, not deleted and not set to
\* another chat object, and the turns of its chat object do not change
C28_OtherSessionsUntouched ==
    [][\A r \in StatefulReqIds :
          sreq'[r] # sreq[r] =>
              \A s \in SessionIds \ {sreq'[r].sessionId} :
                  /\ chatSessions'[s] = chatSessions[s]
                  /\ chatSessions[s] # NoChat =>
                        chats'[chatSessions[s]] = chats[chatSessions[s]]]_vars

\* C28 witness: a request has succeeded and a request has failed on s1, which
\* lost its entry by the failure, and s2 holds a chat object with turns
C28_Witness ==
    \E r1, r2 \in StatefulReqIds :
        /\ sreq[r1].sessionId = "s1" /\ sreq[r1].res.status = 200
        /\ sreq[r2].sessionId = "s1" /\ sreq[r2].res.status = 500
        /\ sreq[r2].chat # NoChat
        /\ chatSessions["s1"] = NoChat
        /\ chatSessions["s2"] # NoChat
        /\ chats[chatSessions["s2"]] # <<>>

\* C12: a request that carries neither a message nor audio and opens no
\* scenario is answered with an error response at once: no generation call
\* is made for it, and the stored sessions are what they were
C12_EmptyTurnRejected ==
    [][\A r \in StatefulReqIds :
          (/\ ReceiveStepS(r)
           /\ sreq'[r].message = Undefined
           /\ sreq'[r].scenario = NoScenario) =>
              /\ sreq'[r].pc = "done"
              /\ sreq'[r].res.status >= 400
              /\ chatSessions' = chatSessions]_vars

----------------------------------------------------------------------------
(***************************************************************************)
(* Properties of retryOperation                                            *)
(***************************************************************************)

RetryDone == rop.pc \in {"returned", "thrown"}

\* a * 1.5 = b, on fractions
GrowsByFactor(a, b) == b.num * a.den * 2 = a.num * b.den * 3

\* C10: the operation is invoked at most retries+1 times (4 with the default
\* retries), each wait is 1.5 times the one before it, the value returned is
\* that of the first successful invocation, which is the last invocation
\* made, the error rethrown is that of invocation retries+1 after every
\* invocation failed, and the call ends.
C10_RetryBounded ==
    /\ [](/\ Len(rop.outcomes) <= rop.retries0 + 1
          /\ (rop.retries0 = DefaultRetries => Len(rop.outcomes) <= 4)
          /\ (rop.pc = "pending" => Len(rop.outcomes) <= rop.retries0)
          /\ Len(rop.waits) <= rop.retries0
          /\ (rop.waits # <<>> => rop.waits[1] = rop.delay0)
          /\ \A i \in 1..(Len(rop.waits) - 1) :
                GrowsByFactor(rop.waits[i], rop.waits[i + 1])
          /\ (rop.pc = "returned" =>
                /\ rop.result = [kind |-> "value", of |-> Len(rop.outcomes)]
                /\ rop.outcomes[Len(rop.outcomes)] = "ok"
                /\ \A i \in 1..(Len(rop.outcomes) - 1) : rop.outcomes[i] = "error")
          /\ (rop.pc = "thrown" =>
                /\ rop.result = [kind |-> "error", of |-> rop.retries0 + 1]
                /\ Len(rop.outcomes) = rop.retries0 + 1
                /\ \A i \in 1..Len(rop.outcomes) : rop.outcomes[i] = "error"))
    /\ [][RetryDone => rop' = rop]_vars
    /\ <>RetryDone

\* C10 witness: with the default retries every one of the four invocations
\* failed, after waits of 500, 750 and 1125 ms, and the last error was
\* rethrown.
C10_Witness ==
    /\ rop.pc = "thrown"
    /\ rop.retries0 = DefaultRetries
    /\ rop.delay0 = Millis(DefaultDelay)
    /\ Len(rop.outcomes) = 4
    /\ Len(rop.waits) = 3
    /\ rop.waits[3].num = 1125 * rop.waits[3].den

----------------------------------------------------------------------------
(***************************************************************************)
(* Properties of the chat client                                           *)
(***************************************************************************)

\* A call made by handleSendMessage
IsSend(r) == creq[r].kind = "send"

\* The step in which the handler of the call r runs to its end
FinishStepC(r) == InFlight(creq[r]) /\ creq'[r].pc = "done"
FailStepC(r) == FinishStepC(r) /\ creq'[r].outcome = "failed"
RenderStepC(r) == FinishStepC(r) /\ creq'[r].outcome = "rendered"

\* s is a prefix of t
IsPrefix(s, t) == Len(s) <= Len(t) /\ s = SubSeq(t, 1, Len(s))

\* C13: handleSendMessage has appended the user's message and set the typing
\* flag when it issues the request, and the typing flag stays set for as long
\* as the request is in flight
C13_TypingWhileInFlight ==
    \A r \in ClientReqIds :
        (IsSend(r) /\ InFlight(creq[r])) =>
            /\ creq[r].listAtIssue = Append(creq[r].before, Message("user", r))
            /\ creq[r].typingAtIssue
            /\ isTyping

C15_FailureKeepsMessages ==
    [][\A r \in ClientReqIds :
          (IsSend(r) /\ FailStepC(r) /\ ~creq[r].cleared) =>
              /\ IsPrefix(Append(creq[r].before, Message("user", r)), messages')
              /\ errorMsg' # NoError
              /\ ~isTyping']_vars

C26_LateCompletionIgnored ==
    [][\A r \in ClientReqIds :
          (FinishStepC(r) /\ creq[r].cleared) =>
              /\ messages' = messages
              /\ hasStarted' = hasStarted]_vars

\* C27: at most one call of chatWithGemini is in flight at any time
C27_OneCallInFlight ==
    Cardinality({r \in ClientReqIds : InFlight(creq[r])}) <= 1

----------------------------------------------------------------------------
(***************************************************************************)
(* Properties of the session server                                        *)
(***************************************************************************)

\* The conversation c was given a session
HasSession(c) == sconv[c].sessionId # NoSession

\* C18: two conversations never have the same sessionId, and a message of
\* one is never sent to the chat object of the other
C18_SessionIdsUnique ==
    \A c1, c2 \in ConvIds :
        (c1 # c2 /\ HasSession(c1) /\ HasSession(c2)) =>
            /\ sconv[c1].sessionId # sconv[c2].sessionId
            /\ sconv[c1].target \in {NoChat, sconv[c1].chat}

----------------------------------------------------------------------------
(***************************************************************************)
(* Properties of the tutor bubbles                                         *)
(***************************************************************************)

\* The calls of handleSpeakTutor of bubble b whose synthesis request succeeded
Synthesized(b) ==
    {c \in SpeakIds : /\ speak[c].pc # "idle"
                      /\ speak[c].bubble = b
                      /\ speak[c].kind = "tutor"
                      /\ speak[c].synthesis = "ok"}

\* The bubbles in which the source of some call is sounding
Sounding ==
    {b \in BubbleIds : \E c \in SpeakIds : speak[c].pc = "playing" /\ speak[c].bubble = b}

\* C19: for every bubble the synthesis of the tutor text succeeds at most
\* once, and the cache is empty exactly as long as none has succeeded
C19_SynthesisAtMostOnce ==
    \A b \in BubbleIds :
        /\ Cardinality(Synthesized(b)) <= 1
        /\ (bubble[b].audioCacheRef = NoClip) <=> (Synthesized(b) = {})

\* C20: at most one bubble has a clip playing at any time
C20_OneClipAcrossBubbles == Cardinality(Sounding) <= 1

\* playRawAudio is called for call c in this step
PlayStep(c) ==
    /\ speak[c].pc \in {"idle", "synthesis"}
    /\ speak'[c].pc \in {"decoding", "playing"}

----------------------------------------------------------------------------
\* The calls of bubble b whose source has been started and has neither
\* been stopped nor ended
PlayingIn(b) == {c \in SpeakIds : speak[c].pc = "playing" /\ speak[c].bubble = b}

\* C29: within one bubble at most one source is playing at any time, and
\* sourceRef refers to it
C29_OneSourcePerBubble ==
    \A b \in BubbleIds :
        /\ Cardinality(PlayingIn(b)) <= 1
        /\ \A c \in PlayingIn(b) : bubble[b].sourceRef = c

(***************************************************************************)
(* Properties of the input area                                            *)
(***************************************************************************)

\* The recorders whose stream holds the microphone
Live == {r \in RecIds : recorders[r].live}

\* A release ends a recording that is shorter than MinDuration
DiscardStep ==
    /\ \E event \in {"up", "leave"} : StopRecordingAndSend(event)
    /\ inputArea.isHoldingRef
    /\ inputArea.mediaRecorderRef # NoRecorder
    /\ recorders[inputArea.mediaRecorderRef].pc = "recording"
    /\ dateNow - inputArea.startTimeRef < MinDuration

\* C21: every recording passed to onSend lasted at least 1000 ms from its
\* start to the release of the button, and a release after less than 1000 ms
\* sends nothing, now or later, and leaves no stream holding the microphone
C21_ShortRecordingDiscarded ==
    [][/\ \A a \in sentAudio' : a.duration >= MinDuration
       /\ DiscardStep =>
            /\ sentAudio' = sentAudio
            /\ recorders'[inputArea.mediaRecorderRef].pc = "inactive"
            /\ Live' = {}]_vars

\* The MediaRecorders that are recording
Active == {r \in RecIds : recorders[r].pc = "recording"}

\* The button is up and the browser owes the input area nothing: no
\* getUserMedia is pending and no stop event is due
Settled ==
    /\ ~inputArea.held
    /\ \A r \in RecIds : recorders[r].pc \notin {"asking", "stopping"}

\* C30: at most one MediaRecorder is active at any time, and once the button
\* is released and the pending permission and stop events are settled, no
\* recorder is recording, isRecording is false and the microphone is free
C30_RecordingOnlyWhileHeld ==
    /\ Cardinality(Active) <= 1
    /\ Settled => (Active = {} /\ ~inputArea.isRecording /\ Live = {})

----------------------------------------------------------------------------
(***************************************************************************)
(* Properties of the speech endpoints                                      *)
(***************************************************************************)

\* C22: a /api/tts request gets at most one response; a request whose
\* synthesis has not finished within 15 s has been answered by then, with an
\* error; a success response carries audio bytes
C22_TtsErrorOnTimeoutOrEmpty ==
    \A r \in TtsReqIds :
        /\ tts[r].responses <= 1
        /\ tts[r].pc = "responded" <=> tts[r].responses = 1
        /\ tts[r].elapsed => tts[r].pc = "responded"
        /\ tts[r].status = 200 => tts[r].audioData = "audio"

----------------------------------------------------------------------------
(***************************************************************************)
(* Properties of the Supabase singleton                                    *)
(***************************************************************************)

\* C24: a call of initSupabase that finds a client returns that client and
\* does not call createClient; a client is created only when there is none,
\* and the instance is cleared by resetSupabase only
C24_InitSupabaseIdempotent ==
    [][/\ ((\E created \in BOOLEAN : InitSupabase(created))
             /\ supabase.instance # NoInstance) =>
            /\ supabase'.returned = Append(supabase.returned, supabase.instance)
            /\ supabase'.instance = supabase.instance
            /\ supabase'.calls = supabase.calls
       /\ supabase'.calls # supabase.calls => supabase.instance = NoInstance
       /\ (supabase.instance # NoInstance /\ supabase'.instance # supabase.instance)
            => (ResetSupabase /\ supabase'.instance = NoInstance)]_vars

\* The first client was returned by two calls, and after a reset the second
\* client was created and returned by two calls
C24_Witness ==
    /\ supabase.returned = <<1, 1, 2, 2>>
    /\ supabase.calls = 2
    /\ supabase.instance = 2

----------------------------------------------------------------------------
(***************************************************************************)
(* Properties of parseGeminiJson                                           *)
(***************************************************************************)

\* The pieces of s from its first "{" to its last "}" inclusive, if the
\* first "{" comes before the last "}"
HasBracePair(s) ==
    /\ IndexOf(s, "{") # -1
    /\ IndexOf(s, "{") < LastIndexOf(s, "}")
Braced(s) == SubSeq(s, IndexOf(s, "{") + 1, LastIndexOf(s, "}") + 1)

\* C25: a text that is JSON as a whole is parsed directly; any other text is
\* stripped of code fences and parsed from its first "{" to its last "}";
\* the call throws when there is no such pair or the pieces between are not
\* JSON
C25_ParseGeminiJson ==
    LET text == parsed.text
        cleaned == WithoutFences(text)
    IN  parsed.outcome =
          IF IsJson(text) THEN Returns(text)
          ELSE IF HasBracePair(cleaned) /\ IsJson(Braced(cleaned))
               THEN Returns(Braced(cleaned))
               ELSE Throws

====
